---- MODULE Spec2Model ----
(***************************************************************************)
(* Open Surge Engine: the scripting integration layer                      *)
(* (src/src/scripting/scripting.c).                                        *)
(*                                                                         *)
(* Angles are whole degrees, multiples of 90, and coordinates are          *)
(* integers, so that rotations are exact and float rounding plays no part. *)
(* The SurgeScript runtime is an external library: the few facts of it the *)
(* engine relies on (an object without a transform has the identity        *)
(* transform, the root is its own parent, a reset discards every object)   *)
(* are modelled next to the calls that rely on them.                       *)
(***************************************************************************)
EXTENDS Integers, Sequences, FiniteSets, TLC

VARIABLES
    objects,     \* the object manager's handle table: handle -> object
    epoch,       \* ghost: number of the session the handle table belongs to
    vm,          \* static surgescript_vm_t* vm (0 = NULL)
    vm_argc,     \* static int vm_argc
    vm_argv,     \* static char** vm_argv (a sequence of strings)
    test_mode,   \* static bool test_mode
    cached_ref,  \* static surgescript_objecthandle_t cached_ref
    status,      \* "down", "running", "failed" (a reset failed) or "fatal" (terminated)
    pool,        \* the program pool: the programs compiled or bound so far
    launched,    \* ghost: argc and argv handed to the last surgescript_vm_launch_ex
    init_argv,   \* ghost: the argv the last scripting_init was called with
    cached_epoch,\* ghost: the session in which cached_ref was looked up
    required,    \* ghost: <<parent, name, handle>> of the require_component calls so far
    live_vms,    \* ghost: the VMs created and not yet destroyed
    walk,        \* the ancestor walk in progress (scripting_util_world_* step by step)
    parser,      \* the script parser while sources are fed to compile_script
    strings,     \* lang.c: static HASHTABLE(stringadapter_t, strings), key -> value
    lang_state,  \* "down", "up" (between lang_init and lang_release) or "fatal"
    languages,   \* the language files of the asset tree: path -> file
    quit,        \* langselect.c: static bool quit
    lngcount,    \* langselect.c: static int lngcount
    lngdata,     \* langselect.c: static lngdata_t *lngdata (slots 1 .. lngcount here)
    option,      \* langselect.c: static int option
    prefs,       \* the preferences of the user: item -> string
    scene,       \* the scene on top of the scene stack and how far it got
    fade,        \* the fade effect: what fadefx_is_fading and fadefx_is_over return
    gameover_timer, \* gameover.c: static float gameover_timer
    lang_defined,\* ghost: the keys the files loaded since lang_init have defined
    lastOp,      \* ghost: the last operation and what it returned
    ops          \* ghost: number of operations performed so far

vars == <<objects, epoch, vm, vm_argc, vm_argv, test_mode, cached_ref, status, pool,
          launched, init_argv, cached_epoch, required, live_vms, walk, parser, strings,
          lang_state, languages, quit, lngcount, lngdata, option, prefs, scene, fade,
          gameover_timer, lang_defined, lastOp, ops>>

\* the variables of the compiler front end, of the language module and of the
\* scenes
sceneVars == <<parser, strings, lang_state, languages, quit, lngcount, lngdata, option,
               prefs, scene, fade, gameover_timer, lang_defined>>

\* the table of a hashtable nothing was added to
EmptyTable == [k \in {} |-> ""]

\* the fade effect at rest: no fade in progress, none has just ended
NoFade == [type |-> "none", left |-> 0, over |-> FALSE]

\* no source being compiled, the language module not initialized, no scene
ScenesIdle ==
    /\ parser = [pool |-> {}, flags |-> "defaults", success |-> TRUE, stop |-> FALSE,
                 fatal |-> FALSE, compiled |-> <<>>, used |-> <<>>]
    /\ strings = EmptyTable
    /\ lang_state = "down"
    /\ languages = EmptyTable
    /\ quit = FALSE
    /\ lngcount = 0
    /\ lngdata = <<>>
    /\ option = 0
    /\ prefs = EmptyTable
    /\ scene = "none"
    /\ fade = NoFade
    /\ gameover_timer = 0
    /\ lang_defined = {}

\* what the transform utilities leave alone
sessionVars == <<epoch, vm, vm_argc, vm_argv, test_mode, cached_ref, status, pool,
                 launched, init_argv, cached_epoch, required, live_vms, walk, sceneVars>>

-----------------------------------------------------------------------------
(* Bounds *)

\* operations per behaviour of the transform specification
MaxOps == 2

-----------------------------------------------------------------------------
(* The object tree *)

\* surgescript_objectmanager_null()
NullHandle == 0

\* surgescript_objectmanager_root()
RootHandle == 1

\* a transform nobody has touched: surgescript_object_transform_changed() is
\* false and surgescript_object_peek_transform() yields the identity
IdentityTransform == [changed |-> FALSE, position |-> <<0, 0>>, rotation |-> 0]

NewObject(name, parent, session) ==
    [name |-> name, parent |-> parent, children |-> <<>>,
     transform |-> IdentityTransform, session |-> session]

Handles == DOMAIN objects

surgescript_object_parent(h) == objects[h].parent

surgescript_object_transform_changed(h) == objects[h].transform.changed

surgescript_object_peek_transform(h) == objects[h].transform

\* cos and sin of a whole multiple of 90 degrees
Cos(a) == CASE a % 360 = 0 -> 1 [] a % 360 = 180 -> -1 [] OTHER -> 0

Sin(a) == CASE a % 360 = 90 -> 1 [] a % 360 = 270 -> -1 [] OTHER -> 0

\* rotate, then translate
surgescript_transform_apply2d(t, p) ==
    <<p[1] * Cos(t.rotation) - p[2] * Sin(t.rotation) + t.position[1],
      p[1] * Sin(t.rotation) + p[2] * Cos(t.rotation) + t.position[2]>>

\* translate back, then rotate back
surgescript_transform_apply2dinverse(t, p) ==
    LET q == <<p[1] - t.position[1], p[2] - t.position[2]>>
    IN  <<q[1] * Cos(-t.rotation) - q[2] * Sin(-t.rotation),
          q[1] * Sin(-t.rotation) + q[2] * Cos(-t.rotation)>>

\* C's fmod on whole numbers: the result has the sign of the dividend
fmod(a, m) == IF a >= 0 THEN a % m ELSE -((-a) % m)

-----------------------------------------------------------------------------
(* The transform engine *)

\* a walk that stops below the root and never applies the root's transform
RECURSIVE world_position_loop_skips_root(_, _)
world_position_loop_skips_root(handle, world_position) ==
    IF handle = RootHandle \/ surgescript_object_parent(handle) = RootHandle
    THEN world_position
    ELSE LET parent == surgescript_object_parent(handle)
         IN  world_position_loop_skips_root(parent,
                 IF surgescript_object_transform_changed(parent)
                 THEN surgescript_transform_apply2d(
                          surgescript_object_peek_transform(parent), world_position)
                 ELSE world_position)

\* the while loop of scripting_util_world_position, from `handle` on
RECURSIVE world_position_loop(_, _)
world_position_loop(handle, world_position) ==
    IF handle = RootHandle
    THEN world_position
    ELSE LET parent == surgescript_object_parent(handle)
         IN  world_position_loop(parent,
                 IF surgescript_object_transform_changed(parent)
                 THEN surgescript_transform_apply2d(
                          surgescript_object_peek_transform(parent), world_position)
                 ELSE world_position)

scripting_util_world_position(object) ==
    world_position_loop(object, surgescript_object_peek_transform(object).position)

\* a world angle in which the root contributes zero
RECURSIVE world_angle_root_contributes_zero(_)
world_angle_root_contributes_zero(object) ==
    IF object = RootHandle
    THEN 0
    ELSE world_angle_root_contributes_zero(surgescript_object_parent(object))
             + surgescript_object_peek_transform(object).rotation

RECURSIVE scripting_util_world_angle(_)
scripting_util_world_angle(object) ==
    LET parent == surgescript_object_parent(object)
        parent_angle == IF parent # object THEN scripting_util_world_angle(parent) ELSE 0
    IN  parent_angle + surgescript_object_peek_transform(object).rotation

\* a world2local that applies the inverse before it recurses (Tn first, T1 last)
RECURSIVE world2local_position_apply_first(_, _)
world2local_position_apply_first(handle, position) ==
    LET own == surgescript_transform_apply2dinverse(
                   surgescript_object_peek_transform(handle), position)
    IN  IF handle # RootHandle
        THEN world2local_position_apply_first(surgescript_object_parent(handle), own)
        ELSE own

\* world2local with angle == NULL: the position in the coordinates of `handle`
RECURSIVE world2local_position(_, _)
world2local_position(handle, position) ==
    LET inherited == IF handle # RootHandle
                     THEN world2local_position(surgescript_object_parent(handle), position)
                     ELSE position
    IN  surgescript_transform_apply2dinverse(
            surgescript_object_peek_transform(handle), inherited)

\* a world2local that leaves the root's rotation out
RECURSIVE world2local_angle_skips_root(_, _)
world2local_angle_skips_root(handle, angle) ==
    IF handle = RootHandle
    THEN angle
    ELSE world2local_angle_skips_root(surgescript_object_parent(handle), angle)
             - surgescript_object_peek_transform(handle).rotation

\* world2local with position == NULL: the angle relative to `handle`
RECURSIVE world2local_angle(_, _)
world2local_angle(handle, angle) ==
    LET inherited == IF handle # RootHandle
                     THEN world2local_angle(surgescript_object_parent(handle), angle)
                     ELSE angle
    IN  inherited - surgescript_object_peek_transform(handle).rotation

\* a teleport that also undoes the transform of the object itself
set_world_position_result_applies_own(object, position) ==
    LET local == world2local_position(object, position)
    IN  [objects EXCEPT ![object].transform =
            [changed |-> TRUE, position |-> local, rotation |-> @.rotation]]

\* the handle table after scripting_util_set_world_position(object, position)
set_world_position_result(object, position) ==
    LET local == IF object # RootHandle
                 THEN world2local_position(surgescript_object_parent(object), position)
                 ELSE position
    IN  [objects EXCEPT ![object].transform =
            [changed |-> TRUE, position |-> local, rotation |-> @.rotation]]

\* a reorientation that also puts the object back at its parent's origin
set_world_angle_result_clears_position(object, angle) ==
    LET local == IF object # RootHandle
                 THEN world2local_angle(surgescript_object_parent(object), angle)
                 ELSE angle
    IN  [objects EXCEPT ![object].transform =
            [changed |-> TRUE, position |-> <<0, 0>>, rotation |-> fmod(local, 360)]]

\* the handle table after scripting_util_set_world_angle(object, angle)
set_world_angle_result(object, angle) ==
    LET local == IF object # RootHandle
                 THEN world2local_angle(surgescript_object_parent(object), angle)
                 ELSE angle
    IN  [objects EXCEPT ![object].transform =
            [changed |-> TRUE, position |-> @.position, rotation |-> fmod(local, 360)]]

NoOp == [kind |-> "none", object |-> NullHandle, position |-> <<0, 0>>, angle |-> 0,
         name |-> "", ret |-> NullHandle, added |-> 0, existed |-> FALSE,
         earlier |-> NullHandle, ok |-> TRUE, lookup |-> FALSE, steps |-> <<>>,
         prior |-> {}, runtime |-> 0, reset_ok |-> TRUE, registered |-> FALSE,
         test_before |-> FALSE, compile_failed |-> FALSE, files |-> <<>>,
         launch_pool |-> {}, log |-> <<>>, message |-> <<>>, trace |-> <<>>,
         vm_before |-> 0, path |-> "", loaded |-> <<>>, table |-> <<>>, level |-> 0,
         buttons |-> {}, fading |-> FALSE, over |-> FALSE, dt |-> 0, popped |-> FALSE,
         count |-> 0, written |-> 0, option_before |-> 0, quit_before |-> FALSE,
         prefs_before |-> <<>>, overflow |-> FALSE, timer_before |-> 0,
         fade_before |-> <<>>, current_page |-> 0, max_pages |-> 0, rendered |-> {}]

\* no ancestor walk in progress
NoWalk == [kind |-> "none", handle |-> NullHandle, visited |-> {}, done |-> TRUE,
           revisited |-> FALSE]

\* the world positions and angles scripts ask for
Points == {<<0, 0>>, <<3, -2>>, <<-1, 4>>}

Angles == {-90, 0, 90, 270, 450}

scripting_util_set_world_position(object, position) ==
    /\ ops < MaxOps
    /\ objects' = set_world_position_result(object, position)
    /\ lastOp' = [NoOp EXCEPT !.kind = "set_world_position", !.object = object,
                              !.position = position]
    /\ ops' = ops + 1
    /\ UNCHANGED sessionVars

scripting_util_set_world_angle(object, angle) ==
    /\ ops < MaxOps
    /\ objects' = set_world_angle_result(object, angle)
    /\ lastOp' = [NoOp EXCEPT !.kind = "set_world_angle", !.object = object,
                              !.angle = angle]
    /\ ops' = ops + 1
    /\ UNCHANGED sessionVars

\* a chain root -> 2 -> 3 -> 4 (depths 0 to 3) whose transforms scripts have
\* left alone or set to something
ChainParent == <<1, 1, 2, 3>>

InitTransforms ==
    { IdentityTransform,
      [changed |-> TRUE, position |-> <<2, -1>>, rotation |-> 90],
      [changed |-> TRUE, position |-> <<-1, 3>>, rotation |-> 270] }

InitTransform ==
    /\ \E tr \in [DOMAIN ChainParent -> InitTransforms] :
           objects = [h \in DOMAIN ChainParent |->
                          [NewObject("Object", ChainParent[h], 1) EXCEPT
                              !.transform = tr[h],
                              !.children = IF h < Len(ChainParent) THEN <<h + 1>> ELSE <<>>]]
    /\ epoch = 1
    /\ vm = 1
    /\ vm_argc = 0
    /\ vm_argv = <<>>
    /\ test_mode = FALSE
    /\ cached_ref = NullHandle
    /\ status = "running"
    /\ pool = {}
    /\ launched = [argc |-> 0, argv |-> <<>>]
    /\ init_argv = <<>>
    /\ cached_epoch = 0
    /\ required = {}
    /\ live_vms = {1}
    /\ walk = NoWalk
    /\ ScenesIdle
    /\ lastOp = NoOp
    /\ ops = 0

NextTransform ==
    \/ \E object \in Handles, position \in Points :
           scripting_util_set_world_position(object, position)
    \/ \E object \in Handles, angle \in Angles :
           scripting_util_set_world_angle(object, angle)

SpecTransform == InitTransform /\ [][NextTransform]_vars

-----------------------------------------------------------------------------
(* The VM lifecycle *)

\* sessions launched per behaviour
MaxSessions == 3

\* length of the argument vector handed to scripting_init
MaxArgs == 2

\* objects a session may hold
MaxObjects == 7

ArgStrings == {"opensurge", "--level"}

ArgVectors == UNION { [1 .. n -> ArgStrings] : n \in 0 .. MaxArgs }

\* surgescript_util_versioncode(min_surgescript_version), "0.5.4"
MinVersionCode == 504

\* surgescript_util_versioncode(NULL): the runtime the engine was linked against
RuntimeVersionCodes == {503, 504, 505}

\* parser flags
SSPARSER_DEFAULTS == "defaults"

SSPARSER_SKIP_DUPLICATES == "skip_duplicates"

\* a script source under scripts/: whether it is a primary file, the programs it
\* defines and whether it compiles
ScriptFile(path, primary, programs, valid) ==
    [path |-> path, primary |-> primary, programs |-> programs, valid |-> valid]

\* what assetfs_foreach_file("scripts", ".ss", ...) may enumerate, in order
ScriptSets ==
    { << ScriptFile("player.ss", TRUE, {<<"Player", "state:main">>}, TRUE) >>,
      << ScriptFile("player.ss", TRUE, {<<"Player", "state:main">>}, TRUE),
         ScriptFile("test.ss", TRUE, {<<"Application", "state:main">>}, TRUE) >>,
      << ScriptFile("player.ss", TRUE, {<<"Player", "state:main">>}, TRUE),
         ScriptFile("mod/player.ss", FALSE, {<<"Player", "state:main">>}, TRUE) >>,
      << ScriptFile("mod/player.ss", FALSE, {<<"Player", "state:main">>}, TRUE),
         ScriptFile("player.ss", TRUE, {<<"Player", "state:main">>}, TRUE) >>,
      << ScriptFile("broken.ss", TRUE, {<<"Broken", "state:main">>}, FALSE),
         ScriptFile("test.ss", TRUE, {<<"Application", "state:main">>}, TRUE) >> }

Program(type, fun, source) == [type |-> type, fun |-> fun, source |-> source]

surgescript_programpool_exists(programs, type, fun) ==
    \E q \in programs : q.type = type /\ q.fun = fun

\* the objects setup_surgeengine registers, in its order
Builtins ==
    << "SurgeEngine", "Actor", "Animation", "Brick", "Camera", "Collisions", "Console",
       "Events", "Input", "Lang", "Level", "LevelManager", "Mouse", "Music",
       "ObstacleMap", "Player", "Prefs", "Screen", "Sensor", "Sound", "Text", "Time",
       "Transform", "Vector2", "Web" >>

setup_surgeengine(programs) ==
    programs \cup { Program(Builtins[i], "constructor", "engine") : i \in DOMAIN Builtins }

scripting_register_application(programs) ==
    programs \cup { Program("Application", "state:main", "engine") }

found_test_script(programs) ==
    surgescript_programpool_exists(programs, "Application", "state:main")

\* surgescript_vm_compile under the parser's flags: a source that does not compile
\* makes it return false; a program that is already in the pool is skipped under
\* SSPARSER_SKIP_DUPLICATES and is a fatal error otherwise (err_fun)
surgescript_vm_compile(st, file) ==
    LET dup  == { pr \in file.programs :
                      surgescript_programpool_exists(st.pool, pr[1], pr[2]) }
        new  == { Program(pr[1], pr[2], file.path) : pr \in file.programs \ dup }
    IN  IF ~file.valid
        THEN [st EXCEPT !.success = FALSE]
        ELSE IF dup # {} /\ st.flags # SSPARSER_SKIP_DUPLICATES
        THEN [st EXCEPT !.fatal = TRUE, !.success = FALSE]
        ELSE [st EXCEPT !.pool = @ \cup new, !.success = TRUE]

\* a compile_script that relaxes the duplicate check for primary sources instead
compile_script_flags_inverted(file, st) ==
    LET flags    == IF file.primary THEN SSPARSER_SKIP_DUPLICATES ELSE SSPARSER_DEFAULTS
        compiled == surgescript_vm_compile([st EXCEPT !.flags = flags], file)
    IN  IF compiled.fatal
        THEN compiled
        ELSE [compiled EXCEPT !.flags = SSPARSER_DEFAULTS, !.stop = ~compiled.success,
                              !.compiled = Append(@, file.path),
                              !.used = Append(@, [path |-> file.path,
                                                  primary |-> file.primary,
                                                  flags |-> flags])]

\* a compile_script that ors the flag in and never puts the defaults back
compile_script_keeps_flags(file, st) ==
    LET flags    == IF ~file.primary THEN SSPARSER_SKIP_DUPLICATES ELSE st.flags
        compiled == surgescript_vm_compile([st EXCEPT !.flags = flags], file)
    IN  IF compiled.fatal
        THEN compiled
        ELSE [compiled EXCEPT !.stop = ~compiled.success,
                              !.compiled = Append(@, file.path),
                              !.used = Append(@, [path |-> file.path,
                                                  primary |-> file.primary,
                                                  flags |-> flags])]

\* compile_script: the state of the compiler after one source, .stop when it
\* returned -1
compile_script(file, st) ==
    LET flags    == IF ~file.primary THEN SSPARSER_SKIP_DUPLICATES ELSE SSPARSER_DEFAULTS
        compiled == surgescript_vm_compile([st EXCEPT !.flags = flags], file)
    IN  IF compiled.fatal
        THEN compiled
        ELSE [compiled EXCEPT !.flags = SSPARSER_DEFAULTS, !.stop = ~compiled.success,
                              !.compiled = Append(@, file.path),
                              !.used = Append(@, [path |-> file.path,
                                                  primary |-> file.primary,
                                                  flags |-> flags])]

\* assetfs_foreach_file: the callback once per file, until it returns non-zero
RECURSIVE assetfs_foreach_file(_, _)
assetfs_foreach_file(files, st) ==
    IF files = <<>> \/ st.stop \/ st.fatal
    THEN st
    ELSE assetfs_foreach_file(Tail(files), compile_script(Head(files), st))

\* a compilation pass that registers the default application whatever the
\* scripts define
compile_scripts_always_registers(programs, files, old_test_mode) ==
    LET st == assetfs_foreach_file(files,
                  [pool |-> programs, flags |-> SSPARSER_DEFAULTS, success |-> TRUE,
                   stop |-> FALSE, fatal |-> FALSE, compiled |-> <<>>, used |-> <<>>])
    IN  IF st.fatal
        THEN [pool |-> st.pool, test_mode |-> old_test_mode, fatal |-> TRUE,
              registered |-> FALSE, failed |-> TRUE]
        ELSE [pool |-> scripting_register_application(st.pool), test_mode |-> FALSE,
              fatal |-> FALSE, registered |-> TRUE, failed |-> st.stop]

\* compile_scripts: the pool and the test-mode flag after a compilation pass
compile_scripts(programs, files, old_test_mode) ==
    LET st == assetfs_foreach_file(files,
                  [pool |-> programs, flags |-> SSPARSER_DEFAULTS, success |-> TRUE,
                   stop |-> FALSE, fatal |-> FALSE, compiled |-> <<>>, used |-> <<>>])
    IN  IF st.fatal
        THEN [pool |-> st.pool, test_mode |-> old_test_mode, fatal |-> TRUE,
              registered |-> FALSE, failed |-> TRUE]
        ELSE IF found_test_script(st.pool)
        THEN [pool |-> st.pool, test_mode |-> TRUE, fatal |-> FALSE,
              registered |-> FALSE, failed |-> st.stop]
        ELSE [pool |-> scripting_register_application(st.pool), test_mode |-> FALSE,
              fatal |-> FALSE, registered |-> TRUE, failed |-> st.stop]

\* a copy loop that pre-decrements and so never copies argv[0]
RECURSIVE copy_arguments_skips_first(_, _, _)
copy_arguments_skips_first(argv, argc, copy) ==
    IF argc > 1
    THEN copy_arguments_skips_first(argv, argc - 1, [copy EXCEPT ![argc] = argv[argc]])
    ELSE copy

\* while(argc-- > 0) vm_argv[argc] = str_dup(argv[argc]);  (indices from 1 here)
RECURSIVE copy_arguments(_, _, _)
copy_arguments(argv, argc, copy) ==
    IF argc > 0
    THEN copy_arguments(argv, argc - 1, [copy EXCEPT ![argc] = argv[argc]])
    ELSE copy

\* mallocx(argc * sizeof(*vm_argv)): argc slots, nothing in them yet
mallocx(argc) == [i \in 1 .. argc |-> "uninitialized"]

\* the objects of a fresh session: the root, the application and the SurgeEngine plugin
RootObjects(session) ==
    << [NewObject("System", RootHandle, session) EXCEPT !.children = <<2, 3>>],
       NewObject("Application", RootHandle, session),
       NewObject("SurgeEngine", RootHandle, session) >>

\* surgescript_vm_launch_ex: spawns the root of a VM that has none
surgescript_vm_launch_ex(objs, session) ==
    IF objs = <<>> THEN RootObjects(session) ELSE objs

\* surgescript_vm(): the VM of the scripting system, null when there is none
surgescript_vm == vm

\* scripting_testmode(): the flag of the most recent compilation pass
scripting_testmode == test_mode

InitOp(steps, ok) == [NoOp EXCEPT !.kind = "init", !.steps = steps, !.ok = ok]

\* a compatibility check that lets every runtime through
check_if_compatible_accepts_any(runtime) == FALSE

\* check_if_compatible: TRUE when it calls fatal_error, the linked runtime being
\* older than min_surgescript_version
check_if_compatible(runtime) == runtime < MinVersionCode

\* surgescript_vm_create: the VM of the session about to be launched; every
\* session gets a VM of its own
surgescript_vm_create(session) == session

scripting_init(argv, files, runtime) ==
    /\ status = "down"
    /\ epoch < MaxSessions
    /\ init_argv' = argv
    /\ IF check_if_compatible(runtime)
       THEN \* fatal_error, before the VM is created
            /\ status' = "fatal"
            /\ lastOp' = [InitOp(<<"check_if_compatible">>, FALSE) EXCEPT
                              !.runtime = runtime, !.files = files,
                              !.test_before = test_mode, !.vm_before = vm]
            /\ UNCHANGED <<objects, epoch, vm, vm_argc, vm_argv, test_mode, pool,
                           launched, required, live_vms>>
       ELSE LET argc     == Len(argv)
                created  == surgescript_vm_create(epoch + 1)
                copy     == copy_arguments(argv, argc, mallocx(argc))
                compiled == compile_scripts(setup_surgeengine({}), files, test_mode)
                op(steps, ok) ==
                    [InitOp(steps, ok) EXCEPT
                         !.runtime = runtime, !.files = files,
                         !.test_before = test_mode, !.vm_before = vm,
                         !.registered = compiled.registered,
                         !.compile_failed = compiled.failed,
                         !.launch_pool = IF ok THEN compiled.pool ELSE {}]
            IN  /\ vm' = created
                /\ live_vms' = live_vms \cup {created}
                /\ vm_argc' = argc
                /\ vm_argv' = copy
                /\ pool' = compiled.pool
                /\ test_mode' = compiled.test_mode
                /\ required' = {}
                /\ IF compiled.fatal
                   THEN /\ status' = "fatal"
                        /\ lastOp' = op(<<"check_if_compatible", "vm_create",
                                          "copy_arguments", "setup_surgeengine",
                                          "compile_scripts">>, FALSE)
                        /\ UNCHANGED <<objects, epoch, launched>>
                   ELSE /\ status' = "running"
                        /\ objects' = surgescript_vm_launch_ex(<<>>, epoch + 1)
                        /\ epoch' = epoch + 1
                        /\ launched' = [argc |-> argc, argv |-> copy]
                        /\ lastOp' = op(<<"check_if_compatible", "vm_create",
                                          "copy_arguments", "setup_surgeengine",
                                          "compile_scripts", "launch">>, TRUE)
    /\ UNCHANGED <<cached_ref, cached_epoch, walk, sceneVars, ops>>

\* the sessions the objects of the handle table were created in
Sessions(objs) == { objs[h].session : h \in DOMAIN objs }

ReloadOp(steps, ok, prior) ==
    [NoOp EXCEPT !.kind = "reload", !.steps = steps, !.ok = ok, !.prior = prior]

\* a reload that skips the reset and rebuilds on top of the running session
reload_without_reset(objs, files) ==
    LET compiled == compile_scripts(setup_surgeengine(pool), files, test_mode)
    IN  [objects   |-> IF compiled.fatal THEN objs
                       ELSE surgescript_vm_launch_ex(objs, epoch + 1),
         pool      |-> compiled.pool,
         test_mode |-> compiled.test_mode,
         fatal     |-> compiled.fatal,
         vm        |-> vm,
         live_vms  |-> live_vms,
         vm_argc   |-> vm_argc,
         vm_argv   |-> vm_argv,
         launched  |-> IF compiled.fatal THEN launched
                       ELSE [argc |-> vm_argc, argv |-> vm_argv],
         launch_pool    |-> IF compiled.fatal THEN {} ELSE compiled.pool,
         registered     |-> compiled.registered,
         compile_failed |-> compiled.failed,
         steps     |-> IF compiled.fatal
                       THEN <<"setup_surgeengine", "compile_scripts">>
                       ELSE <<"setup_surgeengine", "compile_scripts", "launch">>]

\* a reload that releases the argument vector along with the session
reload_drops_arguments(objs, files) ==
    LET compiled == compile_scripts(setup_surgeengine({}), files, test_mode)
    IN  [objects   |-> IF compiled.fatal THEN <<>>
                       ELSE surgescript_vm_launch_ex(<<>>, epoch + 1),
         pool      |-> compiled.pool,
         test_mode |-> compiled.test_mode,
         fatal     |-> compiled.fatal,
         vm        |-> vm,
         live_vms  |-> live_vms,
         vm_argc   |-> 0,
         vm_argv   |-> <<>>,
         launched  |-> IF compiled.fatal THEN launched
                       ELSE [argc |-> 0, argv |-> <<>>],
         launch_pool    |-> IF compiled.fatal THEN {} ELSE compiled.pool,
         registered     |-> compiled.registered,
         compile_failed |-> compiled.failed,
         steps     |-> IF compiled.fatal
                       THEN <<"vm_reset", "setup_surgeengine", "compile_scripts">>
                       ELSE <<"vm_reset", "setup_surgeengine", "compile_scripts", "launch">>]

\* a reload that launches the root right after the reset, before the builtins
\* are registered and the scripts compiled
reload_launches_before_compile(objs, files) ==
    LET reset    == <<>>
        compiled == compile_scripts(setup_surgeengine({}), files, test_mode)
    IN  [objects   |-> surgescript_vm_launch_ex(reset, epoch + 1),
         pool      |-> compiled.pool,
         test_mode |-> compiled.test_mode,
         fatal     |-> compiled.fatal,
         vm        |-> vm,
         live_vms  |-> live_vms,
         vm_argc   |-> vm_argc,
         vm_argv   |-> vm_argv,
         launched  |-> [argc |-> vm_argc, argv |-> vm_argv],
         launch_pool    |-> {},
         registered     |-> compiled.registered,
         compile_failed |-> compiled.failed,
         steps     |-> <<"vm_reset", "launch", "setup_surgeengine", "compile_scripts">>]

\* a reload that builds a second VM next to the running one instead of resetting it
reload_creates_second_session(objs, files) ==
    LET created  == surgescript_vm_create(epoch + 1)
        compiled == compile_scripts(setup_surgeengine({}), files, test_mode)
    IN  [objects   |-> IF compiled.fatal THEN <<>>
                       ELSE surgescript_vm_launch_ex(<<>>, epoch + 1),
         pool      |-> compiled.pool,
         test_mode |-> compiled.test_mode,
         fatal     |-> compiled.fatal,
         vm        |-> created,
         live_vms  |-> live_vms \cup {created},
         vm_argc   |-> vm_argc,
         vm_argv   |-> vm_argv,
         launched  |-> IF compiled.fatal THEN launched
                       ELSE [argc |-> vm_argc, argv |-> vm_argv],
         launch_pool    |-> IF compiled.fatal THEN {} ELSE compiled.pool,
         registered     |-> compiled.registered,
         compile_failed |-> compiled.failed,
         steps     |-> IF compiled.fatal
                       THEN <<"vm_reset", "setup_surgeengine", "compile_scripts">>
                       ELSE <<"vm_reset", "setup_surgeengine", "compile_scripts", "launch">>]

\* what scripting_reload leaves once the reset went through: the same VM, reset
\* in place, then builtins, compilation, launch
reload_result(objs, files) ==
    LET reset    == <<>>
        compiled == compile_scripts(setup_surgeengine({}), files, test_mode)
    IN  [objects   |-> IF compiled.fatal THEN reset
                       ELSE surgescript_vm_launch_ex(reset, epoch + 1),
         pool      |-> compiled.pool,
         test_mode |-> compiled.test_mode,
         fatal     |-> compiled.fatal,
         vm        |-> vm,
         live_vms  |-> live_vms,
         vm_argc   |-> vm_argc,
         vm_argv   |-> vm_argv,
         launched  |-> IF compiled.fatal THEN launched
                       ELSE [argc |-> vm_argc, argv |-> vm_argv],
         launch_pool    |-> IF compiled.fatal THEN {} ELSE compiled.pool,
         registered     |-> compiled.registered,
         compile_failed |-> compiled.failed,
         steps     |-> IF compiled.fatal
                       THEN <<"vm_reset", "setup_surgeengine", "compile_scripts">>
                       ELSE <<"vm_reset", "setup_surgeengine", "compile_scripts", "launch">>]

\* a reset whose failure goes unnoticed
surgescript_vm_reset_unchecked(reset_ok) == TRUE

\* surgescript_vm_reset: whether the VM could be reset
surgescript_vm_reset(reset_ok) == reset_ok

scripting_reload(reset_ok, files) ==
    /\ status \in {"running", "failed"}
    /\ epoch < MaxSessions
    /\ IF ~surgescript_vm_reset(reset_ok)
       THEN \* logged, nothing else is done
            /\ status' = "failed"
            /\ lastOp' = [ReloadOp(<<"vm_reset">>, FALSE, Sessions(objects)) EXCEPT
                              !.reset_ok = reset_ok, !.files = files,
                              !.test_before = test_mode, !.vm_before = vm,
                              !.log = <<"Reloading scripts...",
                                        "Failed to reload the scripts">>]
            /\ UNCHANGED <<objects, epoch, vm, vm_argc, vm_argv, test_mode, pool,
                           launched, required, live_vms>>
       ELSE LET r == reload_result(objects, files)
            IN  /\ objects' = r.objects
                /\ pool' = r.pool
                /\ test_mode' = r.test_mode
                /\ vm' = r.vm
                /\ live_vms' = r.live_vms
                /\ vm_argc' = r.vm_argc
                /\ vm_argv' = r.vm_argv
                /\ launched' = r.launched
                /\ required' = {}
                /\ status' = IF r.fatal THEN "fatal" ELSE "running"
                /\ epoch' = IF r.fatal THEN epoch ELSE epoch + 1
                /\ lastOp' = [ReloadOp(r.steps, ~r.fatal, Sessions(objects)) EXCEPT
                                  !.reset_ok = reset_ok, !.files = files,
                                  !.test_before = test_mode, !.vm_before = vm,
                                  !.registered = r.registered,
                                  !.compile_failed = r.compile_failed,
                                  !.launch_pool = r.launch_pool,
                                  !.log = IF r.fatal THEN <<"Reloading scripts...">>
                                          ELSE <<"Reloading scripts...",
                                                 "The scripts have been reloaded!">>]
    /\ UNCHANGED <<cached_ref, cached_epoch, init_argv, walk, sceneVars, ops>>

\* the handle of the application object, surgescript_objectmanager_application
ApplicationHandle == 2

\* what the exit functor can be when scripting_release calls it: defined, or
\* missing, a call the VM then either ignores or reports through err_fun
ExitFunctors == {"defined", "ignored", "fatal"}

\* one step of scripting_release, with what it found: the VM, the number of
\* objects and the argument count at that moment
ReleaseStep(s, step, target, invoked) ==
    [step |-> step, vm |-> s.vm, objects |-> Len(s.objects), argc |-> s.vm_argc,
     target |-> target, invoked |-> invoked]

\* surgescript_object_call_function(application, "__callExitFunctor", ...)
call_exit_functor(s, functor) ==
    [s EXCEPT !.trace = Append(@, ReleaseStep(s, "__callExitFunctor",
                                   IF ApplicationHandle \in DOMAIN s.objects
                                   THEN s.objects[ApplicationHandle].name ELSE "",
                                   functor = "defined"))]

\* while(vm_argc-- > 0) free(vm_argv[vm_argc]); free(vm_argv);
free_arguments(s) ==
    [s EXCEPT !.vm_argc = -1, !.vm_argv = <<>>,
              !.trace = Append(@, ReleaseStep(s, "free_arguments", "", FALSE))]

\* vm = surgescript_vm_destroy(vm): the session and everything in it, then null
surgescript_vm_destroy(s) ==
    [s EXCEPT !.vm = 0, !.live_vms = @ \ {s.vm}, !.objects = <<>>, !.pool = {},
              !.trace = Append(@, ReleaseStep(s, "vm_destroy", "", FALSE))]

\* a release that destroys the session before it calls the exit functor
release_destroys_first(s, functor) ==
    free_arguments(call_exit_functor(surgescript_vm_destroy(s), functor))

\* scripting_release, its three steps in the order of the code
release_result(s, functor) ==
    surgescript_vm_destroy(free_arguments(call_exit_functor(s, functor)))

scripting_release(functor) ==
    /\ status \in {"running", "failed"}
    /\ IF functor = "fatal"
       THEN \* the VM reports the missing function: err_fun, fatal_error
            /\ status' = "fatal"
            /\ lastOp' = [NoOp EXCEPT !.kind = "release", !.ok = FALSE,
                                      !.name = functor, !.vm_before = vm,
                                      !.steps = <<"__callExitFunctor">>]
            /\ UNCHANGED <<objects, pool, vm_argc, vm_argv, vm, live_vms, required>>
       ELSE LET r == release_result([vm |-> vm, live_vms |-> live_vms,
                                     objects |-> objects, pool |-> pool,
                                     vm_argc |-> vm_argc, vm_argv |-> vm_argv,
                                     trace |-> <<>>], functor)
            IN  /\ objects' = r.objects
                /\ pool' = r.pool
                /\ vm_argc' = r.vm_argc
                /\ vm_argv' = r.vm_argv
                /\ vm' = r.vm
                /\ live_vms' = r.live_vms
                /\ status' = "down"
                /\ required' = {}
                /\ lastOp' = [NoOp EXCEPT !.kind = "release", !.name = functor,
                                  !.vm_before = vm, !.trace = r.trace,
                                  !.steps = [i \in DOMAIN r.trace |-> r.trace[i].step]]
    /\ UNCHANGED <<epoch, test_mode, cached_ref, cached_epoch, launched, init_argv,
                   walk, sceneVars, ops>>

\* fatal_error("A scripting error was triggered in \"%s\".\n\n%s", object_name, buf)
scripting_error_message_unattributed(objs, object, text) ==
    <<"A scripting error was triggered", text>>

scripting_error_message(objs, object, text) ==
    <<"A scripting error was triggered in", objs[object].name, text>>

\* what behaviours and the VM report
ErrorTexts == {"Can't spawn object", "Null pointer exception"}

\* scripting_error: a behaviour raises a fault on an object; fatal_error does
\* not return
scripting_error(object, text) ==
    /\ status = "running"
    /\ object \in DOMAIN objects
    /\ status' = "fatal"
    /\ lastOp' = [NoOp EXCEPT !.kind = "scripting_error", !.object = object,
                              !.name = objects[object].name, !.ok = FALSE,
                              !.message = scripting_error_message(objects, object, text)]
    /\ UNCHANGED <<objects, epoch, vm, vm_argc, vm_argv, test_mode, cached_ref, pool,
                   launched, init_argv, cached_epoch, required, live_vms, walk, sceneVars, ops>>

\* the message the VM hands to its error function for a fault in an object: the
\* text, with or without the name of the object
VmMessages(objs, object) ==
    { <<text>> : text \in ErrorTexts } \cup
    { <<text, objs[object].name>> : text \in ErrorTexts }

\* err_fun: the VM's own error channel, fatal_error("%s", message)
err_fun(object, message) ==
    /\ status = "running"
    /\ object \in DOMAIN objects
    /\ status' = "fatal"
    /\ lastOp' = [NoOp EXCEPT !.kind = "err_fun", !.object = object,
                              !.name = objects[object].name, !.ok = FALSE,
                              !.message = message]
    /\ UNCHANGED <<objects, epoch, vm, vm_argc, vm_argv, test_mode, cached_ref, pool,
                   launched, init_argv, cached_epoch, required, live_vms, walk, sceneVars, ops>>

-----------------------------------------------------------------------------
(* Component resolution *)

\* the component names behaviours ask for
ComponentNames == {"Collider", "Sensor", "SurgeEngine"}

Min(S) == CHOOSE x \in S : \A y \in S : x <= y

\* surgescript_object_child: the first child of that name, or null
surgescript_object_child(objs, parent, name) ==
    LET kids    == objs[parent].children
        matches == { i \in DOMAIN kids : objs[kids[i]].name = name }
    IN  IF matches = {} THEN NullHandle ELSE kids[Min(matches)]

\* surgescript_objectmanager_spawn: a new object in the next slot of the handle
\* table, appended to the children of its parent
surgescript_objectmanager_spawn(objs, parent, name) ==
    Append([objs EXCEPT ![parent].children = Append(@, Len(objs) + 1)],
           NewObject(name, parent, epoch))

\* a lookup among the children of the object itself instead of its parent's
require_component_own_children(object, name) ==
    LET parent_handle == surgescript_object_parent(object)
        component     == surgescript_object_child(objects, object, name)
    IN  IF component = NullHandle
        THEN [objects   |-> surgescript_objectmanager_spawn(objects, parent_handle, name),
              component |-> Len(objects) + 1]
        ELSE [objects |-> objects, component |-> component]

\* scripting_util_require_component: the handle table afterwards and the handle returned
require_component_result(object, name) ==
    LET parent_handle == surgescript_object_parent(object)
        component     == surgescript_object_child(objects, parent_handle, name)
    IN  IF component = NullHandle
        THEN [objects   |-> surgescript_objectmanager_spawn(objects, parent_handle, name),
              component |-> Len(objects) + 1]
        ELSE [objects |-> objects, component |-> component]

\* the handle an earlier call for (parent, name) returned in this session, or null
EarlierComponent(parent, name) ==
    LET found == { r \in required : r[1] = parent /\ r[2] = name }
    IN  IF found = {} THEN NullHandle ELSE (CHOOSE r \in found : TRUE)[3]

scripting_util_require_component(object, name) ==
    LET r      == require_component_result(object, name)
        parent == surgescript_object_parent(object)
    IN  /\ status = "running"
        /\ Len(r.objects) <= MaxObjects
        /\ objects' = r.objects
        /\ required' = required \cup {<<parent, name, r.component>>}
        /\ lastOp' = [NoOp EXCEPT
               !.kind = "require_component", !.object = object, !.name = name,
               !.ret = r.component,
               !.added = Len(r.objects[parent].children) - Len(objects[parent].children),
               !.existed = surgescript_object_child(objects, parent, name) # NullHandle,
               !.earlier = EarlierComponent(parent, name)]
        /\ UNCHANGED <<epoch, vm, vm_argc, vm_argv, test_mode, cached_ref, status, pool,
                       launched, init_argv, cached_epoch, live_vms, walk, sceneVars, ops>>

\* surgescript_objectmanager_plugin_object
surgescript_objectmanager_plugin_object(objs, name) ==
    surgescript_object_child(objs, RootHandle, name)

scripting_util_surgeengine_object ==
    /\ status = "running"
    /\ cached_ref' = IF cached_ref = NullHandle
                     THEN surgescript_objectmanager_plugin_object(objects, "SurgeEngine")
                     ELSE cached_ref
    /\ cached_epoch' = IF cached_ref = NullHandle THEN epoch ELSE cached_epoch
    /\ lastOp' = [NoOp EXCEPT !.kind = "surgeengine_object", !.ret = cached_ref',
                              !.lookup = (cached_ref = NullHandle)]
    /\ UNCHANGED <<objects, epoch, vm, vm_argc, vm_argv, test_mode, status, pool,
                   launched, init_argv, required, live_vms, walk, sceneVars, ops>>

-----------------------------------------------------------------------------
(* The scripting system: lifecycle and component resolution *)

\* the scripting system before scripting_init
ScriptingDown ==
    /\ objects = <<>>
    /\ epoch = 0
    /\ vm = 0
    /\ vm_argc = 0
    /\ vm_argv = <<>>
    /\ test_mode = FALSE
    /\ cached_ref = NullHandle
    /\ status = "down"
    /\ pool = {}
    /\ launched = [argc |-> 0, argv |-> <<>>]
    /\ init_argv = <<>>
    /\ cached_epoch = 0
    /\ required = {}
    /\ live_vms = {}
    /\ walk = NoWalk
    /\ lastOp = NoOp
    /\ ops = 0

Init == ScriptingDown /\ ScenesIdle

Next ==
    \/ \E argv \in ArgVectors, files \in ScriptSets, runtime \in RuntimeVersionCodes :
           scripting_init(argv, files, runtime)
    \/ \E reset_ok \in BOOLEAN, files \in ScriptSets : scripting_reload(reset_ok, files)
    \/ \E functor \in ExitFunctors : scripting_release(functor)
    \/ scripting_util_surgeengine_object
    \/ \E object \in DOMAIN objects, text \in ErrorTexts : scripting_error(object, text)
    \/ \E object \in DOMAIN objects : \E message \in VmMessages(objects, object) :
           err_fun(object, message)

Spec == Init /\ [][Next]_vars

\* component resolution in a session scripting_init has launched
DefaultScripts == << ScriptFile("player.ss", TRUE, {<<"Player", "state:main">>}, TRUE) >>

\* the launched tree once the application has spawned two objects of its own
SpawnedObjects ==
    surgescript_objectmanager_spawn(
        surgescript_objectmanager_spawn(surgescript_vm_launch_ex(<<>>, 1), 2, "Player"),
        2, "Enemy")

InitComponent ==
    /\ epoch = 1
    /\ objects = SpawnedObjects
    /\ vm = 1
    /\ vm_argc = 0
    /\ vm_argv = <<>>
    /\ test_mode = FALSE
    /\ cached_ref = NullHandle
    /\ status = "running"
    /\ pool = compile_scripts(setup_surgeengine({}), DefaultScripts, FALSE).pool
    /\ launched = [argc |-> 0, argv |-> <<>>]
    /\ init_argv = <<>>
    /\ cached_epoch = 0
    /\ required = {}
    /\ live_vms = {1}
    /\ walk = NoWalk
    /\ ScenesIdle
    /\ lastOp = NoOp
    /\ ops = 0

NextComponent ==
    \E object \in Handles, name \in ComponentNames :
        scripting_util_require_component(object, name)

SpecComponent == InitComponent /\ [][NextComponent]_vars

-----------------------------------------------------------------------------
(* Reference definitions the transform claims are stated against *)

\* depth of an object: the number of parent links up to the root
RECURSIVE Depth(_)
Depth(h) == IF h = RootHandle THEN 0 ELSE 1 + Depth(objects[h].parent)

\* the ancestors of an object, from its parent up to and including the root
RECURSIVE AncestorChain(_)
AncestorChain(h) ==
    IF h = RootHandle THEN <<>> ELSE <<objects[h].parent>> \o AncestorChain(objects[h].parent)

\* a position carried through the stored transform of each object of a chain, in order
RECURSIVE ComposeChain(_, _)
ComposeChain(chain, p) ==
    IF chain = <<>>
    THEN p
    ELSE ComposeChain(Tail(chain),
                      surgescript_transform_apply2d(objects[Head(chain)].transform, p))

\* the stored rotations of a chain, added up
RECURSIVE SumRotations(_)
SumRotations(chain) ==
    IF chain = <<>> THEN 0 ELSE objects[Head(chain)].transform.rotation + SumRotations(Tail(chain))

Mod360(a) == a % 360

-----------------------------------------------------------------------------
(* Claims about the transform engine, checked under SpecTransform *)

\* C1: after scripting_util_set_world_position(O, P), scripting_util_world_position(O)
\* returns P, at every depth and whatever the ancestors' transforms are, ancestors
\* whose transform was never changed included.
C1_PositionRoundTrip ==
    lastOp.kind = "set_world_position" =>
        scripting_util_world_position(lastOp.object) = lastOp.position

\* C1 witness: a teleport of the object at depth 3 to a point off the origin, below an
\* ancestor that was never changed and an ancestor that is rotated and translated.
C1_Witness ==
    /\ lastOp.kind = "set_world_position"
    /\ Depth(lastOp.object) >= 3
    /\ lastOp.position # <<0, 0>>
    /\ \E a \in Handles : /\ a # lastOp.object
                          /\ ~objects[a].transform.changed
    /\ \E a \in Handles : /\ a # lastOp.object
                          /\ objects[a].transform.rotation % 180 # 0
                          /\ objects[a].transform.position # <<0, 0>>
    /\ objects[lastOp.object].transform.position # lastOp.position

\* C2 as stated: after scripting_util_set_world_angle(O, A), scripting_util_world_angle(O)
\* equals A mod 360 and lies in [0, 360).
C2_AngleRoundTripNormalized ==
    lastOp.kind = "set_world_angle" =>
        /\ scripting_util_world_angle(lastOp.object) = Mod360(lastOp.angle)
        /\ scripting_util_world_angle(lastOp.object) \in 0 .. 359

\* C2 as amended: after scripting_util_set_world_angle(O, A), scripting_util_world_angle(O)
\* is congruent to A modulo 360; it is a plain sum and need not lie in [0, 360).
C2_AngleRoundTripCongruent ==
    lastOp.kind = "set_world_angle" =>
        Mod360(scripting_util_world_angle(lastOp.object)) = Mod360(lastOp.angle)

\* C2 witness: a reorientation of a non-root object below rotated ancestors whose
\* world angle comes back outside [0, 360).
C2_Witness ==
    /\ lastOp.kind = "set_world_angle"
    /\ Depth(lastOp.object) >= 2
    /\ SumRotations(AncestorChain(lastOp.object)) % 360 # 0
    /\ scripting_util_world_angle(lastOp.object) \notin 0 .. 359

\* C3: the world position of every object is its local position carried through the
\* transform of every ancestor, from its parent up to and including the root, child
\* to root; the world position of the root is its local position.
C3_WorldPositionIsComposition ==
    \A h \in Handles :
        /\ scripting_util_world_position(h) =
               ComposeChain(AncestorChain(h), objects[h].transform.position)
        /\ h = RootHandle =>
               scripting_util_world_position(h) = objects[h].transform.position

\* C3 witness: an object at depth 3 whose three ancestors all carry a changed,
\* rotated transform, the root included.
C3_Witness ==
    \E h \in Handles :
        /\ Depth(h) >= 3
        /\ \A a \in Handles : a # h => /\ objects[a].transform.changed
                                       /\ objects[a].transform.rotation % 180 # 0
                                       /\ objects[a].transform.position # <<0, 0>>
        /\ objects[h].transform.position # <<0, 0>>
        /\ scripting_util_world_position(h) # objects[h].transform.position

\* C4 as stated: the world angle sums the local rotations from O toward the root with
\* the root contributing zero: world_angle(root) = 0 and the world angle of a child of
\* the root is the child's local rotation, whatever rotation the root stores.
C4_RootContributesZero ==
    /\ scripting_util_world_angle(RootHandle) = 0
    /\ \A h \in Handles :
           (h # RootHandle /\ objects[h].parent = RootHandle) =>
               scripting_util_world_angle(h) = objects[h].transform.rotation

\* C4 as amended: the world angle is the sum of the local rotations of O and of every
\* ancestor up to and including the root: world_angle(root) is the root's stored
\* rotation, and the world angle of a child of the root is its own rotation plus the
\* root's.
C4_WorldAngleIsSumWithRoot ==
    /\ \A h \in Handles :
           scripting_util_world_angle(h) =
               objects[h].transform.rotation + SumRotations(AncestorChain(h))
    /\ scripting_util_world_angle(RootHandle) = objects[RootHandle].transform.rotation
    /\ \A h \in Handles :
           (h # RootHandle /\ objects[h].parent = RootHandle) =>
               scripting_util_world_angle(h) =
                   objects[h].transform.rotation + objects[RootHandle].transform.rotation

\* C4 witness: the root stores a rotation other than zero and has a rotated child.
C4_Witness ==
    /\ objects[RootHandle].transform.rotation # 0
    /\ \E h \in Handles : /\ h # RootHandle
                          /\ objects[h].parent = RootHandle
                          /\ objects[h].transform.rotation # 0
                          /\ scripting_util_world_angle(h) # objects[h].transform.rotation

\* C5: every object's stored local rotation is in [0, 360), whatever calls of
\* scripting_util_set_world_angle were made.
C5_RotationNormalized ==
    \A h \in Handles : objects[h].transform.rotation \in 0 .. 359

-----------------------------------------------------------------------------
(* Claims about component resolution, checked under SpecComponent *)

-----------------------------------------------------------------------------
(* Claims about the lifecycle, checked under Spec *)

C8_CachedHandleOfCurrentSession ==
    lastOp.kind = "surgeengine_object" => cached_epoch = epoch

\* C9: scripting_reload, successful or failed, leaves vm_argc and every element of
\* vm_argv as scripting_init stored them.
C9_ReloadKeepsArguments ==
    lastOp.kind = "reload" =>
        /\ vm_argc = Len(init_argv)
        /\ vm_argv = init_argv

\* C9 witness: a failed reload after a successful one, with two arguments stored.
C9_Witness ==
    /\ lastOp.kind = "reload"
    /\ ~lastOp.ok
    /\ status = "failed"
    /\ epoch >= 2
    /\ vm_argc >= 2

\* C10: every launch, by scripting_init or by a successful scripting_reload, is
\* handed an argument vector equal, element for element and in its count, to the
\* argv scripting_init was called with.
C10_LaunchGetsInitArguments ==
    (lastOp.kind \in {"init", "reload"} /\ lastOp.ok) =>
        /\ lastOp.steps[Len(lastOp.steps)] = "launch"
        /\ launched.argc = Len(init_argv)
        /\ launched.argv = init_argv

\* C10 witness: a relaunch by a second successful reload, with two arguments.
C10_Witness ==
    /\ lastOp.kind = "reload"
    /\ lastOp.ok
    /\ epoch >= 3
    /\ launched.argc >= 2
    /\ launched.argv[1] # launched.argv[2]

-----------------------------------------------------------------------------
(* Test-mode detection *)

\* the scripts of the pass defined the reserved entry point themselves
ScriptsDefineEntryPoint ==
    \E q \in pool : q.type = "Application" /\ q.fun = "state:main" /\ q.source # "engine"

\* the default application entry is in the pool
DefaultEntryRegistered == Program("Application", "state:main", "engine") \in pool

\* a compilation pass, of scripting_init or of scripting_reload, ran to its end
PassCompleted == lastOp.kind \in {"init", "reload"} /\ lastOp.ok

\* C11: after every compilation pass, if the scripts put the reserved entry point
\* (Application, state:main) in the pool then scripting_testmode() is true and the
\* default application entry was not registered in that pass; otherwise
\* scripting_testmode() is false and the default entry was registered.
C11_TestModeFollowsLastPass ==
    PassCompleted =>
        IF ScriptsDefineEntryPoint
        THEN scripting_testmode /\ ~lastOp.registered /\ ~DefaultEntryRegistered
        ELSE ~scripting_testmode /\ lastOp.registered /\ DefaultEntryRegistered

\* a reload whose scripts define the entry point turned the flag on
C11_Witness ==
    /\ lastOp.kind = "reload"
    /\ lastOp.ok
    /\ ScriptsDefineEntryPoint
    /\ scripting_testmode
    /\ ~lastOp.test_before

-----------------------------------------------------------------------------
(* The compatibility guard *)

\* this step is a scripting_init against a runtime older than the minimum
InitBelowMinimum ==
    /\ status = "down"
    /\ lastOp'.kind = "init"
    /\ lastOp'.runtime < MinVersionCode

\* C12: when the linked runtime is older than the minimum, scripting_init ends in
\* the fatal-error sink before any session state exists: no VM is created, the
\* arguments are not duplicated, no builtin is registered, no script compiled and
\* nothing launched.
C12_VersionGuardBeforeSessionState ==
    [][InitBelowMinimum =>
           /\ status' = "fatal"
           /\ lastOp'.steps = <<"check_if_compatible">>
           /\ vm' = 0 /\ live_vms' = {}
           /\ UNCHANGED <<vm, live_vms, vm_argc, vm_argv, pool, objects, launched,
                          epoch, test_mode>>]_vars

\* scripting_init was refused for a runtime older than the minimum
C12_Witness ==
    /\ lastOp.kind = "init"
    /\ lastOp.runtime < MinVersionCode
    /\ status = "fatal"
    /\ vm = 0
    /\ pool = {}

-----------------------------------------------------------------------------
(* A reload whose reset fails *)

\* this step is a scripting_reload in which surgescript_vm_reset fails
ReloadResetFails ==
    /\ status \in {"running", "failed"}
    /\ lastOp'.kind = "reload"
    /\ ~lastOp'.reset_ok

\* C13: when the VM reset fails in scripting_reload the reload is aborted and
\* logged: the builtins are not registered again, no script is compiled, the root
\* is not launched and the test-mode flag keeps the value it had.
C13_FailedResetAbortsReload ==
    [][ReloadResetFails =>
           /\ lastOp'.steps = <<"vm_reset">>
           /\ lastOp'.log = <<"Reloading scripts...", "Failed to reload the scripts">>
           /\ scripting_testmode' = scripting_testmode
           /\ UNCHANGED <<pool, objects, launched, epoch, vm, vm_argc, vm_argv>>]_vars

\* a reload failed at the reset in a session running in test mode
C13_Witness ==
    /\ lastOp.kind = "reload"
    /\ ~lastOp.reset_ok
    /\ status = "failed"
    /\ scripting_testmode
    /\ objects # <<>>

-----------------------------------------------------------------------------
(* A script that does not compile *)

\* the last operation is a pass in which a source failed to compile
PassWithCompileFailure == lastOp.kind \in {"init", "reload"} /\ lastOp.compile_failed

\* C14: when a script fails to compile the compile phase aborts with failure and
\* the pass does not go on to decide the test mode, register the default
\* application entry and launch the root as if the compilation had succeeded.
C14_CompileFailureAbortsPass ==
    PassWithCompileFailure =>
        /\ status # "running"
        /\ ~lastOp.registered
        /\ \A i \in DOMAIN lastOp.steps : lastOp.steps[i] # "launch"

-----------------------------------------------------------------------------
(* Content overriding *)

\* the last operation compiled two sources that define the same type, one of
\* them primary and the other not
OverridePass ==
    /\ lastOp.kind \in {"init", "reload"}
    /\ \E i \in DOMAIN lastOp.steps : lastOp.steps[i] = "compile_scripts"
    /\ Len(lastOp.files) = 2
    /\ lastOp.files[1].valid /\ lastOp.files[2].valid
    /\ lastOp.files[1].programs \cap lastOp.files[2].programs # {}
    /\ lastOp.files[1].primary # lastOp.files[2].primary

PrimarySource == IF lastOp.files[1].primary THEN lastOp.files[1] ELSE lastOp.files[2]

OverridingSource == IF lastOp.files[1].primary THEN lastOp.files[2] ELSE lastOp.files[1]

\* the pass did not fault and the pool holds the primary source's definition of
\* every program the two sources share
PrimaryDefinitionKept ==
    /\ status # "fatal"
    /\ \A pr \in PrimarySource.programs \cap OverridingSource.programs :
           /\ Program(pr[1], pr[2], PrimarySource.path) \in pool
           /\ Program(pr[1], pr[2], OverridingSource.path) \notin pool

\* C15 as stated: in either enumeration order, compiling the two sources does not
\* fault and the primary source's definition is the one in the pool afterwards.
C15_OverrideInEitherOrder == OverridePass => PrimaryDefinitionKept

\* C15: when the primary source is enumerated before the non-primary one,
\* compiling the two does not fault and the primary source's definition is the
\* one in the pool afterwards; when the non-primary source comes first, the
\* primary source meets the definition under full duplicate checking and the
\* pass ends in the fatal-error sink.
C15_OverrideAfterPrimary ==
    OverridePass =>
        IF lastOp.files[1].primary
        THEN PrimaryDefinitionKept
        ELSE status = "fatal" /\ ~lastOp.ok

\* a pass compiled a primary source and then a non-primary one of the same type
C15_Witness ==
    /\ OverridePass
    /\ lastOp.files[1].primary
    /\ lastOp.ok
    /\ status = "running"

-----------------------------------------------------------------------------
(* Lifecycle ordering *)

\* step a was taken, and before step b
Before(steps, a, b) ==
    \E i, j \in DOMAIN steps : i < j /\ steps[i] = a /\ steps[j] = b

Taken(steps, a) == \E i \in DOMAIN steps : steps[i] = a

\* C16: scripting_init and a successful scripting_reload go in one fixed order:
\* create or reset the session, register the builtins, compile the scripts and
\* decide the test mode, launch the root. The root is never launched before
\* registration and compilation have finished, so the launch finds the pool of
\* the finished pass; in scripting_init the arguments are duplicated before the
\* launch.
C16_LifecycleOrder ==
    lastOp.kind \in {"init", "reload"} =>
        IF lastOp.ok
        THEN /\ Before(lastOp.steps,
                       IF lastOp.kind = "init" THEN "vm_create" ELSE "vm_reset",
                       "setup_surgeengine")
             /\ Before(lastOp.steps, "setup_surgeengine", "compile_scripts")
             /\ Before(lastOp.steps, "compile_scripts", "launch")
             /\ lastOp.steps[Len(lastOp.steps)] = "launch"
             /\ lastOp.launch_pool = pool
             /\ \A i \in DOMAIN Builtins :
                    surgescript_programpool_exists(lastOp.launch_pool, Builtins[i],
                                                   "constructor")
             /\ found_test_script(lastOp.launch_pool)
             /\ lastOp.kind = "init" =>
                    /\ Before(lastOp.steps, "copy_arguments", "launch")
                    /\ launched.argv = vm_argv
             /\ objects # <<>>
        ELSE /\ ~Taken(lastOp.steps, "launch")
             /\ lastOp.launch_pool = {}

\* a reload went through all four steps and launched the root
C16_Witness ==
    /\ lastOp.kind = "reload"
    /\ lastOp.ok
    /\ Len(lastOp.steps) = 4
    /\ objects # <<>>
    /\ lastOp.launch_pool = pool

-----------------------------------------------------------------------------
(* Release *)

-----------------------------------------------------------------------------
(* Scripting faults *)

\* the message names the type of the object
Attributed(message, name) == \E i \in DOMAIN message : message[i] = name

\* the last operation raised a fault, through scripting_error or through err_fun
FaultRaised == lastOp.kind \in {"scripting_error", "err_fun"}

\* C18 as stated: every scripting fault, raised by scripting_error or arriving
\* through err_fun, ends in the fatal-error sink with a message attributed to the
\* type name of the offending object.
C18_EveryFaultAttributed ==
    FaultRaised => status = "fatal" /\ Attributed(lastOp.message, lastOp.name)

\* C18: every scripting fault ends in the fatal-error sink, control never returns
\* and no later scripting operation runs. A fault raised by scripting_error
\* carries a message attributed to the type name of the offending object; a
\* fault arriving through err_fun carries the message of the VM as it is, with no
\* attribution added.
C18_FaultsAreFatal ==
    /\ [](FaultRaised =>
             /\ status = "fatal"
             /\ lastOp.kind = "scripting_error" =>
                    /\ Attributed(lastOp.message, lastOp.name)
                    /\ lastOp.message[1] = "A scripting error was triggered in"
                    /\ lastOp.message[3] \in ErrorTexts
             /\ lastOp.kind = "err_fun" =>
                    lastOp.message \in VmMessages(objects, lastOp.object))
    /\ [][status # "fatal"]_vars

\* a behaviour raised a fault on an object the application had in its session
C18_Witness ==
    /\ lastOp.kind = "scripting_error"
    /\ lastOp.name = "Application"
    /\ status = "fatal"
    /\ Attributed(lastOp.message, "Application")

-----------------------------------------------------------------------------
(* One session at a time *)

-----------------------------------------------------------------------------
(* The ancestor walks, step by step, on trees whose parent links may be malformed *)

\* parent links of four objects: the well-formed chain, an object that is its
\* own parent without being the root, and two cycles that never reach the root
WalkParents == { ChainParent, <<1, 2, 2, 3>>, <<1, 3, 2, 3>>, <<1, 1, 4, 3>> }

\* the operations that walk up the parent chain
WalkKinds == {"world_position", "world_angle", "set_world_position", "set_world_angle"}

\* whether the walk goes on from `handle`: scripting_util_world_angle recurses
\* while the parent is another object, the loop of scripting_util_world_position
\* and world2local go on while the handle is not the root
walk_continues(kind, objs, handle) ==
    IF kind = "world_angle"
    THEN objs[handle].parent # handle
    ELSE handle # RootHandle

\* an operation is called on an object and starts at it
StartWalk(kind, object) ==
    /\ walk.done
    /\ ops < MaxOps
    /\ ops' = ops + 1
    /\ walk' = [kind |-> kind, handle |-> object, visited |-> {object},
                done |-> FALSE, revisited |-> FALSE]
    /\ lastOp' = [NoOp EXCEPT !.kind = kind, !.object = object]
    /\ UNCHANGED <<objects, epoch, vm, vm_argc, vm_argv, test_mode, cached_ref, status,
                   pool, launched, init_argv, cached_epoch, required, live_vms, sceneVars>>

\* one iteration of the loop, or one level of the recursion: up to the parent,
\* or out when the end of the chain is recognised
WalkStep ==
    /\ ~walk.done
    /\ IF walk_continues(walk.kind, objects, walk.handle)
       THEN LET parent == objects[walk.handle].parent
            IN  walk' = [walk EXCEPT !.handle = parent,
                                     !.visited = @ \cup {parent},
                                     !.revisited = @ \/ parent \in walk.visited]
       ELSE walk' = [walk EXCEPT !.done = TRUE]
    /\ UNCHANGED <<objects, epoch, vm, vm_argc, vm_argv, test_mode, cached_ref, status,
                   pool, launched, init_argv, cached_epoch, required, live_vms, sceneVars,
                   lastOp, ops>>

InitWalk ==
    /\ \E parents \in WalkParents :
           objects = [h \in DOMAIN parents |-> NewObject("Object", parents[h], 1)]
    /\ epoch = 1
    /\ vm = 1
    /\ vm_argc = 0
    /\ vm_argv = <<>>
    /\ test_mode = FALSE
    /\ cached_ref = NullHandle
    /\ status = "running"
    /\ pool = {}
    /\ launched = [argc |-> 0, argv |-> <<>>]
    /\ init_argv = <<>>
    /\ cached_epoch = 0
    /\ required = {}
    /\ live_vms = {1}
    /\ walk = NoWalk
    /\ ScenesIdle
    /\ lastOp = NoOp
    /\ ops = 0

NextWalk ==
    \/ \E kind \in WalkKinds, object \in DOMAIN objects : StartWalk(kind, object)
    \/ WalkStep

SpecWalk == InitWalk /\ [][NextWalk]_vars

\* C20: the world-transform queries and mutations terminate even when a malformed
\* parent link makes the chain cyclic: the ancestor walk is bounded, it never
\* comes back to an object it has already visited.
C20_WalkIsBounded == ~walk.revisited

-----------------------------------------------------------------------------
(* World mutation: the order of the inverses and the frame *)

\* the ancestors of an object outward from the root: the root first, the
\* immediate parent last
RECURSIVE RootToParent(_)
RootToParent(h) ==
    IF h = RootHandle THEN <<>> ELSE RootToParent(objects[h].parent) \o <<objects[h].parent>>

\* a position taken through the inverse of the stored transform of each object
\* of a chain, the first of the chain first
RECURSIVE InverseChain(_, _)
InverseChain(chain, p) ==
    IF chain = <<>>
    THEN p
    ELSE InverseChain(Tail(chain),
                      surgescript_transform_apply2dinverse(objects[Head(chain)].transform, p))

\* C21: scripting_util_set_world_position and scripting_util_set_world_angle apply
\* the inverse transforms of the ancestors in root-to-parent order: the inverse of
\* the root first, that of the immediate parent last, each ancestor once and the
\* transform of the object itself never.
C21_InversesRootToParent ==
    /\ lastOp.kind = "set_world_position" =>
           objects[lastOp.object].transform.position =
               InverseChain(RootToParent(lastOp.object), lastOp.position)
    /\ lastOp.kind = "set_world_angle" =>
           objects[lastOp.object].transform.rotation =
               fmod(lastOp.angle - SumRotations(RootToParent(lastOp.object)), 360)

\* a teleport at depth 3 below ancestors for which the order of the inverses
\* matters, of an object whose own transform is not the identity
C21_Witness ==
    /\ lastOp.kind = "set_world_position"
    /\ Depth(lastOp.object) >= 3
    /\ InverseChain(RootToParent(lastOp.object), lastOp.position) #
           InverseChain(AncestorChain(lastOp.object), lastOp.position)
    /\ objects[lastOp.object].transform.rotation # 0
    /\ objects[lastOp.object].transform.position # <<0, 0>>

\* C22: scripting_util_set_world_position(O, P) changes the local position of O and
\* nothing else, scripting_util_set_world_angle(O, A) the local rotation of O and
\* nothing else: the other component of O and the transform of every other
\* object stay as they were; on the root no inverse is applied, the stored
\* position is P.
C22_MutationChangesOnlyTarget ==
    [][lastOp'.kind \in {"set_world_position", "set_world_angle"} =>
           LET O == lastOp'.object
           IN  /\ \A h \in Handles : h # O => objects'[h] = objects[h]
               /\ objects'[O].parent = objects[O].parent
               /\ objects'[O].children = objects[O].children
               /\ lastOp'.kind = "set_world_position" =>
                      /\ objects'[O].transform.rotation = objects[O].transform.rotation
                      /\ O = RootHandle =>
                             objects'[O].transform.position = lastOp'.position
               /\ lastOp'.kind = "set_world_angle" =>
                      /\ objects'[O].transform.position = objects[O].transform.position
                      /\ O = RootHandle =>
                             objects'[O].transform.rotation = fmod(lastOp'.angle, 360)]_vars

\* the root, rotated and off the origin, was teleported: its position is the
\* point asked for, not that point seen from the root
C22_Witness ==
    /\ lastOp.kind = "set_world_position"
    /\ lastOp.object = RootHandle
    /\ objects[RootHandle].transform.rotation # 0
    /\ lastOp.position # <<0, 0>>
    /\ objects[RootHandle].transform.position = lastOp.position
    /\ \E h \in Handles : h # RootHandle /\ objects[h].transform.changed

-----------------------------------------------------------------------------
(* The parser flags, one compile_script call after the other *)

\* compile_script calls per behaviour
MaxFiles == 3

\* the sources the callback is handed: primary or not, compiling or not,
\* defining a type of their own or one another source defines too
CompileFiles ==
    { ScriptFile("player.ss", TRUE, {<<"Player", "state:main">>}, TRUE),
      ScriptFile("mod/player.ss", FALSE, {<<"Player", "state:main">>}, TRUE),
      ScriptFile("enemy.ss", TRUE, {<<"Enemy", "state:main">>}, TRUE),
      ScriptFile("mod/enemy.ss", FALSE, {<<"Enemy", "state:main">>}, TRUE),
      ScriptFile("broken.ss", TRUE, {<<"Broken", "state:main">>}, FALSE),
      ScriptFile("mod/broken.ss", FALSE, {<<"Broken", "state:main">>}, FALSE) }

\* one call of the callback compile_script by assetfs_foreach_file
compile_script_call(file) ==
    /\ ~parser.fatal
    /\ Len(parser.used) < MaxFiles
    /\ parser' = compile_script(file, parser)
    /\ lastOp' = [NoOp EXCEPT !.kind = "compile_script", !.files = <<file>>,
                              !.existed = \E pr \in file.programs :
                                  surgescript_programpool_exists(parser.pool, pr[1], pr[2])]
    /\ UNCHANGED <<objects, epoch, vm, vm_argc, vm_argv, test_mode, cached_ref, status,
                   pool, launched, init_argv, cached_epoch, required, live_vms, walk,
                   strings, lang_state, languages, quit, lngcount, lngdata, option,
                   prefs, scene, fade, gameover_timer, lang_defined, ops>>

InitCompile == ScriptingDown /\ ScenesIdle

NextCompile == \E file \in CompileFiles : compile_script_call(file)

SpecCompile == InitCompile /\ [][NextCompile]_vars

\* C23: compile_script sets the skip-duplicates flag only while a non-primary
\* file is compiled, and after every call that returns, the compilation having
\* succeeded or failed, the flags of the parser are the defaults again: a primary
\* file is compiled with full duplicate checking whatever files came before it.
C23_ParserFlagsDoNotLeak ==
    /\ ~parser.fatal =>
           /\ parser.flags = SSPARSER_DEFAULTS
           /\ \A i \in DOMAIN parser.used :
                  parser.used[i].flags =
                      IF parser.used[i].primary THEN SSPARSER_DEFAULTS
                      ELSE SSPARSER_SKIP_DUPLICATES
    /\ lastOp.kind = "compile_script" =>
           LET file == lastOp.files[1]
           IN  (file.primary /\ file.valid /\ lastOp.existed) => parser.fatal

\* a primary file was compiled right after a non-primary one and after a
\* source that failed to compile
C23_Witness ==
    /\ ~parser.fatal
    /\ Len(parser.used) = 3
    /\ parser.used[1].path = "mod/broken.ss"
    /\ ~parser.used[2].primary
    /\ parser.used[2].flags = SSPARSER_SKIP_DUPLICATES
    /\ parser.used[3].primary
    /\ parser.used[3].flags = SSPARSER_DEFAULTS
    /\ parser.flags = SSPARSER_DEFAULTS

-----------------------------------------------------------------------------
(* The language module (src/src/core/lang.c) *)

DEFAULT_LANGUAGE_FILEPATH == "languages/english.lng"

GAME_VERSION == 0

GAME_SUB_VERSION == 5

GAME_WIP_VERSION == 0

GAME_VERSION_CODE == GAME_VERSION * 10000 + GAME_SUB_VERSION * 100 + GAME_WIP_VERSION

\* a language file: its statements, key and string, in the order of the file
LangFile(statements) == [statements |-> statements]

english ==
    LangFile(<< <<"LANG_COMPATIBILITY", "0.5.0">>, <<"LANG_NAME", "English">>,
                <<"LANG_AUTHOR", "Alexandre">>, <<"YES", "yes">>, <<"NO", "no">> >>)

\* a translation that leaves NO to the default language and says YES twice
deutsch ==
    LangFile(<< <<"LANG_COMPATIBILITY", "0.4.0">>, <<"LANG_NAME", "Deutsch">>,
                <<"LANG_AUTHOR", "Hans">>, <<"YES", "jawohl">>, <<"YES", "ja">>,
                <<"HELLO", "hallo">> >>)

\* a translation without a readable compatibility string, in which a string is
\* the word null
latina ==
    LangFile(<< <<"LANG_COMPATIBILITY", "any">>, <<"LANG_NAME", "Latina">>,
                <<"LANG_AUTHOR", "Marcus">>, <<"YES", "ita">>, <<"NOTHING", "null">> >>)

\* a translation made for a later version of the engine
future ==
    LangFile(<< <<"LANG_COMPATIBILITY", "0.6.0">>, <<"LANG_NAME", "Future">>,
                <<"LANG_AUTHOR", "Nobody">>, <<"YES", "yep">>, <<"WARP", "warp">> >>)

\* the languages/ folder of an installation, path -> file: one with three
\* languages and a later file, one with three languages, one with two languages
\* and a later file, one with the default and a later file, one without the
\* default language file
AssetTrees ==
    { [path \in {"languages/english.lng", "languages/deutsch.lng",
                 "languages/latina.lng", "languages/future.lng"} |->
           CASE path = "languages/english.lng" -> english
             [] path = "languages/deutsch.lng" -> deutsch
             [] path = "languages/latina.lng" -> latina
             [] OTHER -> future],
      [path \in {"languages/english.lng", "languages/deutsch.lng",
                 "languages/latina.lng"} |->
           CASE path = "languages/english.lng" -> english
             [] path = "languages/deutsch.lng" -> deutsch
             [] OTHER -> latina],
      [path \in {"languages/english.lng", "languages/deutsch.lng",
                 "languages/future.lng"} |->
           CASE path = "languages/english.lng" -> english
             [] path = "languages/deutsch.lng" -> deutsch
             [] OTHER -> future],
      [path \in {"languages/english.lng", "languages/future.lng"} |->
           IF path = "languages/english.lng" THEN english ELSE future],
      [path \in {"languages/deutsch.lng"} |-> deutsch] }

\* the paths lang_loadfile is asked for
LangPaths ==
    {"languages/english.lng", "languages/deutsch.lng", "languages/latina.lng",
     "languages/future.lng", "languages/missing.lng"}

\* the keys of the files, and one no file has
LangKeys ==
    {"LANG_COMPATIBILITY", "LANG_NAME", "LANG_AUTHOR", "YES", "NO", "HELLO", "NOTHING",
     "WARP", "MISSING"}

assetfs_exists(files, filepath) == filepath \in DOMAIN files

\* sscanf(compat, "%d.%d.%d", ...) < 3 leaves 0.0.0
ParseVersion(compat) ==
    CASE compat = "0.4.0" -> <<0, 4, 0>>
      [] compat = "0.5.0" -> <<0, 5, 0>>
      [] compat = "0.6.0" -> <<0, 6, 0>>
      [] OTHER -> <<0, 0, 0>>

\* game_version_compare: the version of the engine against the one given
game_version_compare(ver, subver, wipver) ==
    GAME_VERSION_CODE - (ver * 10000 + subver * 100 + wipver)

\* lang_readstring: the string of the first statement of that key, and whether
\* there is none (fatal_error)
RECURSIVE lang_readstring(_, _)
lang_readstring(statements, desired_key) ==
    IF statements = <<>>
    THEN [fatal |-> TRUE, value |-> ""]
    ELSE IF Head(statements)[1] = desired_key
    THEN [fatal |-> FALSE, value |-> Head(statements)[2]]
    ELSE lang_readstring(Tail(statements), desired_key)

lang_readcompatibility(file) ==
    LET compat == lang_readstring(file.statements, "LANG_COMPATIBILITY")
    IN  [fatal |-> compat.fatal, version |-> ParseVersion(compat.value)]

\* a traverse that leaves a known key with the string it had
RECURSIVE traverse_keeps_first(_, _)
traverse_keeps_first(table, statements) ==
    IF statements = <<>>
    THEN table
    ELSE LET key   == Head(statements)[1]
             value == Head(statements)[2]
         IN  traverse_keeps_first([k \in DOMAIN table \cup {key} |->
                                      IF k \in DOMAIN table THEN table[k] ELSE value],
                                  Tail(statements))

\* traverse, statement after statement: a new key is added, a known key gets the
\* new string
RECURSIVE traverse(_, _)
traverse(table, statements) ==
    IF statements = <<>>
    THEN table
    ELSE LET key   == Head(statements)[1]
             value == Head(statements)[2]
         IN  traverse([k \in DOMAIN table \cup {key} |->
                          IF k = key THEN value ELSE table[k]],
                      Tail(statements))

\* a lang_loadfile that checks the compatibility after the keys are in
RECURSIVE lang_loadfile_checks_late(_, _, _, _)
lang_loadfile_checks_late(table, files, filepath, level) ==
    IF ~assetfs_exists(files, filepath)
    THEN IF filepath # DEFAULT_LANGUAGE_FILEPATH
         THEN lang_loadfile_checks_late(table, files, DEFAULT_LANGUAGE_FILEPATH, level + 1)
         ELSE [strings |-> table, fatal |-> TRUE, loaded |-> <<>>, level |-> level]
    ELSE LET compat == lang_readcompatibility(files[filepath])
             v      == compat.version
             filled == traverse(table, files[filepath].statements)
         IN  IF compat.fatal \/ game_version_compare(v[1], v[2], v[3]) < 0
             THEN [strings |-> filled, fatal |-> TRUE, loaded |-> <<>>, level |-> level]
             ELSE [strings |-> filled, fatal |-> FALSE, loaded |-> <<filepath>>,
                   level |-> level]

\* lang_loadfile: the table afterwards, whether fatal_error was called, the
\* file that was traversed and the depth of the recursion
RECURSIVE lang_loadfile(_, _, _, _)
lang_loadfile(table, files, filepath, level) ==
    IF ~assetfs_exists(files, filepath)
    THEN IF filepath # DEFAULT_LANGUAGE_FILEPATH
         THEN lang_loadfile(table, files, DEFAULT_LANGUAGE_FILEPATH, level + 1)
         ELSE [strings |-> table, fatal |-> TRUE, loaded |-> <<>>, level |-> level]
    ELSE LET compat == lang_readcompatibility(files[filepath])
             v      == compat.version
         IN  IF compat.fatal \/ game_version_compare(v[1], v[2], v[3]) < 0
             THEN [strings |-> table, fatal |-> TRUE, loaded |-> <<>>, level |-> level]
             ELSE [strings |-> traverse(table, files[filepath].statements),
                   fatal |-> FALSE, loaded |-> <<filepath>>, level |-> level]

\* lang_getstring: the string of the key, the word null when there is none
lang_getstring(table, desired_key) ==
    IF desired_key \in DOMAIN table THEN table[desired_key] ELSE "null"

lang_haskey(table, desired_key) == desired_key \in DOMAIN table

\* the keys the statements define
StatementKeys(statements) == { statements[i][1] : i \in DOMAIN statements }

\* the keys of the files of a list of paths
LoadedKeys(files, loaded) ==
    UNION { StatementKeys(files[loaded[i]].statements) : i \in DOMAIN loaded }

lang_init ==
    /\ lang_state = "down"
    /\ LET r == lang_loadfile(EmptyTable, languages, DEFAULT_LANGUAGE_FILEPATH, 0)
       IN  /\ strings' = r.strings
           /\ lang_state' = IF r.fatal THEN "fatal" ELSE "up"
           /\ lang_defined' = LoadedKeys(languages, r.loaded)
           /\ lastOp' = [NoOp EXCEPT !.kind = "lang_init", !.ok = ~r.fatal,
                                     !.path = DEFAULT_LANGUAGE_FILEPATH,
                                     !.loaded = r.loaded, !.level = r.level,
                                     !.table = EmptyTable]
    /\ UNCHANGED <<objects, epoch, vm, vm_argc, vm_argv, test_mode, cached_ref, status,
                   pool, launched, init_argv, cached_epoch, required, live_vms, walk,
                   parser, languages, quit, lngcount, lngdata, option, prefs, scene,
                   fade, gameover_timer, ops>>

lang_loadfile_call(filepath) ==
    /\ lang_state = "up"
    /\ LET r == lang_loadfile(strings, languages, filepath, 0)
       IN  /\ strings' = r.strings
           /\ lang_state' = IF r.fatal THEN "fatal" ELSE "up"
           /\ lang_defined' = lang_defined \cup LoadedKeys(languages, r.loaded)
           /\ lastOp' = [NoOp EXCEPT !.kind = "lang_loadfile", !.ok = ~r.fatal,
                                     !.path = filepath, !.loaded = r.loaded,
                                     !.level = r.level, !.table = strings]
    /\ UNCHANGED <<objects, epoch, vm, vm_argc, vm_argv, test_mode, cached_ref, status,
                   pool, launched, init_argv, cached_epoch, required, live_vms, walk,
                   parser, languages, quit, lngcount, lngdata, option, prefs, scene,
                   fade, gameover_timer, ops>>

lang_release ==
    /\ lang_state = "up"
    /\ strings' = EmptyTable
    /\ lang_state' = "down"
    /\ lang_defined' = {}
    /\ lastOp' = [NoOp EXCEPT !.kind = "lang_release", !.table = strings]
    /\ UNCHANGED <<objects, epoch, vm, vm_argc, vm_argv, test_mode, cached_ref, status,
                   pool, launched, init_argv, cached_epoch, required, live_vms, walk,
                   parser, languages, quit, lngcount, lngdata, option, prefs, scene,
                   fade, gameover_timer, ops>>

\* the scenes and the compiler idle, whatever the installation has under
\* languages/
ScenesIdleWithAssets ==
    /\ parser = [pool |-> {}, flags |-> "defaults", success |-> TRUE, stop |-> FALSE,
                 fatal |-> FALSE, compiled |-> <<>>, used |-> <<>>]
    /\ strings = EmptyTable
    /\ lang_state = "down"
    /\ languages \in AssetTrees
    /\ quit = FALSE
    /\ lngcount = 0
    /\ lngdata = <<>>
    /\ option = 0
    /\ prefs = EmptyTable
    /\ scene = "none"
    /\ fade = NoFade
    /\ gameover_timer = 0
    /\ lang_defined = {}

InitLang == ScriptingDown /\ ScenesIdleWithAssets

NextLang ==
    \/ lang_init
    \/ \E filepath \in LangPaths : lang_loadfile_call(filepath)
    \/ lang_release

SpecLang == InitLang /\ [][NextLang]_vars

-----------------------------------------------------------------------------
(* The translation table between lang_init and lang_release *)

\* the string of the last statement of that key
RECURSIVE LastValue(_, _)
LastValue(statements, key) ==
    IF statements = <<>>
    THEN ""
    ELSE IF statements[Len(statements)][1] = key
    THEN statements[Len(statements)][2]
    ELSE LastValue(SubSeq(statements, 1, Len(statements) - 1), key)

\* C27 as stated: lang_getstring gives the word null exactly for the keys no
\* loaded file has defined
C27_NullExactlyForUndefined ==
    lang_state = "up" =>
        \A k \in LangKeys : (lang_getstring(strings, k) = "null") <=> (k \notin lang_defined)

\* C27: between lang_init and lang_release a load removes no key, adds the keys
\* of the file and gives the keys of the file the string of the file, so
\* lang_haskey holds exactly of the keys a loaded file has defined;
\* lang_getstring gives the word null for every other key, and for a defined
\* key the string last loaded for it, the word null included
C27_TableOnlyGrows ==
    /\ lang_state = "up" =>
           \A k \in LangKeys :
               /\ lang_haskey(strings, k) <=> (k \in lang_defined)
               /\ k \notin lang_defined => lang_getstring(strings, k) = "null"
    /\ lastOp.kind = "lang_loadfile" =>
           /\ \A k \in DOMAIN lastOp.table : lang_haskey(strings, k)
           /\ \A i \in DOMAIN lastOp.loaded :
                  LET statements == languages[lastOp.loaded[i]].statements
                  IN  /\ \A k \in StatementKeys(statements) :
                             lang_getstring(strings, k) = LastValue(statements, k)
                      /\ \A k \in DOMAIN lastOp.table \ StatementKeys(statements) :
                             lang_getstring(strings, k) = lastOp.table[k]
                      /\ DOMAIN strings = DOMAIN lastOp.table \cup StatementKeys(statements)

\* a translation was loaded over the default language: it brought a new key,
\* replaced a string and left a key of the default language alone
C27_Witness ==
    /\ lastOp.kind = "lang_loadfile"
    /\ lastOp.loaded = <<"languages/deutsch.lng">>
    /\ lastOp.table["YES"] = "yes"
    /\ "HELLO" \notin DOMAIN lastOp.table
    /\ strings["YES"] = "ja"
    /\ strings["NO"] = "no"
    /\ strings["HELLO"] = "hallo"

\* C28: a path that does not exist and is not the default one gets the default
\* file loaded in its place, one level deep; without the default file the call
\* is fatal; a file of a later version is fatal and leaves the table as it was
C28_FallbackOneLevel ==
    lastOp.kind \in {"lang_init", "lang_loadfile"} =>
        /\ lastOp.level <= 1
        /\ (lastOp.level = 1) <=>
               (lastOp.path \notin DOMAIN languages
                    /\ lastOp.path # DEFAULT_LANGUAGE_FILEPATH)
        /\ lastOp.level = 1 /\ DEFAULT_LANGUAGE_FILEPATH \in DOMAIN languages =>
               /\ lastOp.ok
               /\ lastOp.loaded = <<DEFAULT_LANGUAGE_FILEPATH>>
               /\ strings = traverse(lastOp.table, english.statements)
        /\ (lastOp.path \notin DOMAIN languages
                /\ DEFAULT_LANGUAGE_FILEPATH \notin DOMAIN languages) =>
               /\ lang_state = "fatal"
               /\ strings = lastOp.table
        /\ lastOp.path \in DOMAIN languages =>
               LET v == lang_readcompatibility(languages[lastOp.path]).version
               IN  game_version_compare(v[1], v[2], v[3]) < 0 =>
                       /\ lang_state = "fatal"
                       /\ lastOp.loaded = <<>>
                       /\ strings = lastOp.table

\* a translation was loaded, then a path that does not exist was asked for
C28_Witness ==
    /\ lastOp.kind = "lang_loadfile"
    /\ lastOp.path = "languages/missing.lng"
    /\ lastOp.level = 1
    /\ lastOp.loaded = <<DEFAULT_LANGUAGE_FILEPATH>>
    /\ lastOp.table["YES"] = "ja"
    /\ strings["YES"] = "yes"

-----------------------------------------------------------------------------
(* The fade effect, as the scenes use it, and the language selection scene
   (src/src/scenes/langselect.c) *)

\* time is counted in ticks
TicksPerSecond == 2

\* the longest frame, in ticks
MaxDt == 2

\* the fade effect one frame later: a fade in progress goes on or ends, and
\* fadefx_is_over holds in the frame in which it ended
FadeFrame(f, dt) ==
    IF f.type = "none"
    THEN [f EXCEPT !.over = FALSE]
    ELSE IF f.left <= dt
    THEN [type |-> "none", left |-> 0, over |-> TRUE]
    ELSE [f EXCEPT !.left = @ - dt, !.over = FALSE]

fadefx_is_fading(f) == f.type # "none"

fadefx_is_over(f) == f.over

\* fadefx_in and fadefx_out start a fade unless one is in progress
fadefx_in(f, seconds) ==
    IF f.type = "none"
    THEN [f EXCEPT !.type = "in", !.left = seconds * TicksPerSecond]
    ELSE f

fadefx_out(f, seconds) ==
    IF f.type = "none"
    THEN [f EXCEPT !.type = "out", !.left = seconds * TicksPerSecond]
    ELSE f

Buttons == {"IB_DOWN", "IB_UP", "IB_FIRE1", "IB_FIRE3", "IB_FIRE4"}

\* what input_button_pressed can say in one frame: no button, one button, or
\* two buttons that act in the same update
Pressed ==
    {{}} \cup { {button} : button \in Buttons }
         \cup { {"IB_DOWN", "IB_UP"}, {"IB_UP", "IB_FIRE1"}, {"IB_FIRE3", "IB_FIRE4"} }

\* the % of C: the quotient is truncated, the result has the sign of the dividend
CRemainder(a, n) == IF a >= 0 THEN a % n ELSE -((-a) % n)

\* an UP that leaves out the + lngcount
option_up_without_offset(current, count) == CRemainder(current - 1, count)

option_down(current, count) == CRemainder(current + 1, count)

option_up(current, count) ==
    CRemainder(CRemainder(current - 1, count) + count, count)

\* a scene that goes on reading the buttons after quit
accepts_input_after_quit(q, fading) == ~fading

\* if(!quit && !fadefx_is_fading())
accepts_input(q, fading) == ~q /\ ~fading

\* prefs_set_string
prefs_set_string(table, key, value) ==
    [k \in DOMAIN table \cup {key} |-> IF k = key THEN value ELSE table[k]]

\* a confirmation that loads the selected file first and the default file over it
confirm_language_selected_first(table, files, filepath, preferences) ==
    LET r1 == lang_loadfile(table, files, filepath, 0)
        r2 == lang_loadfile(r1.strings, files, DEFAULT_LANGUAGE_FILEPATH, 0)
    IN  [strings |-> r2.strings, fatal |-> r1.fatal \/ r2.fatal,
         loaded |-> r1.loaded \o r2.loaded,
         prefs |-> prefs_set_string(preferences, ".langpath", filepath),
         steps |-> << [call |-> "lang_loadfile", path |-> DEFAULT_LANGUAGE_FILEPATH],
                      [call |-> "lang_loadfile", path |-> filepath],
                      [call |-> "save_preferences", path |-> filepath] >>]

\* the confirm button: the three calls in the order of the code, a call that
\* is fatal being the last one
confirm_language(table, files, filepath, preferences) ==
    LET r1 == lang_loadfile(table, files, DEFAULT_LANGUAGE_FILEPATH, 0)
        r2 == lang_loadfile(r1.strings, files, filepath, 0)
    IN  IF r1.fatal
        THEN [strings |-> r1.strings, fatal |-> TRUE, loaded |-> r1.loaded,
              prefs |-> preferences,
              steps |-> << [call |-> "lang_loadfile",
                            path |-> DEFAULT_LANGUAGE_FILEPATH] >>]
        ELSE IF r2.fatal
        THEN [strings |-> r2.strings, fatal |-> TRUE, loaded |-> r1.loaded \o r2.loaded,
              prefs |-> preferences,
              steps |-> << [call |-> "lang_loadfile", path |-> DEFAULT_LANGUAGE_FILEPATH],
                           [call |-> "lang_loadfile", path |-> filepath] >>]
        ELSE [strings |-> r2.strings, fatal |-> FALSE, loaded |-> r1.loaded \o r2.loaded,
              prefs |-> prefs_set_string(preferences, ".langpath", filepath),
              steps |-> << [call |-> "lang_loadfile", path |-> DEFAULT_LANGUAGE_FILEPATH],
                           [call |-> "lang_loadfile", path |-> filepath],
                           [call |-> "save_preferences", path |-> filepath] >>]

\* a slot of lngdata nothing was written to
Unwritten == [filepath |-> "?", title |-> "?", author |-> "?"]

\* the orders in which assetfs_foreach_file can visit the files, the same one
\* for the two enumerations of a directory that did not change
Orders(paths) ==
    { order \in [1..Cardinality(paths) -> paths] :
          \A i, j \in 1..Cardinality(paths) : order[i] = order[j] => i = j }

dircount(files, filename, st) ==
    LET compat == lang_readcompatibility(files[filename])
        v      == compat.version
    IN  IF compat.fatal
        THEN [st EXCEPT !.fatal = TRUE]
        ELSE IF game_version_compare(v[1], v[2], v[3]) >= 0
        THEN [st EXCEPT !.count = @ + 1]
        ELSE st

\* a dirfill that takes the files of the version of the engine only
dirfill_exact_version(files, filename, st) ==
    LET compat == lang_readcompatibility(files[filename])
        v      == compat.version
        name   == lang_readstring(files[filename].statements, "LANG_NAME")
        author == lang_readstring(files[filename].statements, "LANG_AUTHOR")
    IN  IF compat.fatal
        THEN [st EXCEPT !.fatal = TRUE]
        ELSE IF game_version_compare(v[1], v[2], v[3]) = 0
        THEN IF st.c + 1 > Len(st.data)
             THEN [st EXCEPT !.overflow = TRUE, !.c = @ + 1]
             ELSE IF name.fatal \/ author.fatal
             THEN [st EXCEPT !.fatal = TRUE]
             ELSE [st EXCEPT !.data[st.c + 1] = [filepath |-> filename,
                                                 title |-> name.value,
                                                 author |-> author.value],
                             !.c = @ + 1]
        ELSE st

\* dirfill: a compatible file is written to lngdata[*c], and *c goes up; a
\* write to a slot past the array is recorded
dirfill(files, filename, st) ==
    LET compat == lang_readcompatibility(files[filename])
        v      == compat.version
        name   == lang_readstring(files[filename].statements, "LANG_NAME")
        author == lang_readstring(files[filename].statements, "LANG_AUTHOR")
    IN  IF compat.fatal
        THEN [st EXCEPT !.fatal = TRUE]
        ELSE IF game_version_compare(v[1], v[2], v[3]) >= 0
        THEN IF st.c + 1 > Len(st.data)
             THEN [st EXCEPT !.overflow = TRUE, !.c = @ + 1]
             ELSE IF name.fatal \/ author.fatal
             THEN [st EXCEPT !.fatal = TRUE]
             ELSE [st EXCEPT !.data[st.c + 1] = [filepath |-> filename,
                                                 title |-> name.value,
                                                 author |-> author.value],
                             !.c = @ + 1]
        ELSE st

\* assetfs_foreach_file with dircount, and with dirfill: one call for each
\* file, until a call is fatal
RECURSIVE foreach_dircount(_, _, _)
foreach_dircount(files, order, st) ==
    IF order = <<>> \/ st.fatal
    THEN st
    ELSE foreach_dircount(files, Tail(order), dircount(files, Head(order), st))

RECURSIVE foreach_dirfill(_, _, _)
foreach_dirfill(files, order, st) ==
    IF order = <<>> \/ st.fatal
    THEN st
    ELSE foreach_dirfill(files, Tail(order), dirfill(files, Head(order), st))

\* str_icmp on the titles of the languages: their place in the alphabet,
\* whatever the case of the letters
TitleRank(title) ==
    CASE title = "Deutsch" -> 1
      [] title = "English" -> 2
      [] title = "Future" -> 3
      [] title = "Latina" -> 4
      [] OTHER -> 0

str_icmp(a, b) == TitleRank(a) - TitleRank(b)

sort_cmp(a, b) ==
    IF str_icmp(a.title, "English") = 0 THEN -1
    ELSE IF str_icmp(b.title, "English") = 0 THEN 1
    ELSE str_icmp(a.title, b.title)

\* qsort with sort_cmp: each entry after the entries that do not come after it
RECURSIVE qsort(_)
qsort(data) ==
    IF Len(data) <= 1
    THEN data
    ELSE LET sorted == qsort(SubSeq(data, 1, Len(data) - 1))
             x      == data[Len(data)]
             k      == Cardinality({ i \in DOMAIN sorted : sort_cmp(sorted[i], x) <= 0 })
         IN  SubSeq(sorted, 1, k) \o <<x>> \o SubSeq(sorted, k + 1, Len(sorted))

load_lang_list(files, order) ==
    LET counted == foreach_dircount(files, order, [count |-> 0, fatal |-> FALSE])
    IN  IF counted.fatal \/ counted.count = 0
        THEN [fatal |-> TRUE, lngcount |-> counted.count, lngdata |-> <<>>,
              written |-> 0, overflow |-> FALSE]
        ELSE LET filled == foreach_dirfill(files, order,
                               [data |-> [i \in 1..counted.count |-> Unwritten],
                                c |-> 0, fatal |-> FALSE, overflow |-> FALSE])
             IN  [fatal |-> filled.fatal, lngcount |-> counted.count,
                  lngdata |-> qsort(filled.data), written |-> filled.c,
                  overflow |-> filled.overflow]

\* the language of the preferences is loaded at startup, after lang_init and
\* before the scene
preload(filepath) ==
    /\ scene = "none"
    /\ lastOp.kind = "lang_init"
    /\ lang_loadfile_call(filepath)

langselect_init(order) ==
    /\ scene = "none"
    /\ lang_state = "up"
    /\ LET r == load_lang_list(languages, order)
       IN  /\ option' = 0
           /\ quit' = FALSE
           /\ lngcount' = r.lngcount
           /\ lngdata' = r.lngdata
           /\ scene' = IF r.fatal THEN "fatal"
                       ELSE IF r.lngcount <= 1 THEN "langselect:popped"
                       ELSE "langselect"
           /\ fade' = IF r.fatal \/ r.lngcount <= 1 THEN fade ELSE fadefx_in(fade, 1)
           /\ lastOp' = [NoOp EXCEPT !.kind = "langselect_init", !.ok = ~r.fatal,
                                     !.count = r.lngcount, !.written = r.written,
                                     !.overflow = r.overflow,
                                     !.popped = ~r.fatal /\ r.lngcount <= 1]
    /\ UNCHANGED <<objects, epoch, vm, vm_argc, vm_argv, test_mode, cached_ref, status,
                   pool, launched, init_argv, cached_epoch, required, live_vms, walk,
                   parser, languages, strings, lang_state, prefs, gameover_timer,
                   lang_defined, ops>>

LANG_MAXPERPAGE == 7

\* the / of C on int: the quotient is truncated
CQuotient(a, n) == IF a >= 0 THEN a \div n ELSE -((-a) \div n)

current_page(current) == 1 + CQuotient(current, LANG_MAXPERPAGE)

\* a page count that leaves out the first page
max_pages_without_first(count) ==
    CQuotient(IF count - 1 > 0 THEN count - 1 ELSE 0, LANG_MAXPERPAGE)

\* 1 + max(0, lngcount - 1) / LANG_MAXPERPAGE
max_pages(count) ==
    1 + CQuotient(IF count - 1 > 0 THEN count - 1 ELSE 0, LANG_MAXPERPAGE)

langselect_update(buttons, dt) ==
    /\ scene = "langselect"
    /\ LET f       == FadeFrame(fade, dt)
           accept  == accepts_input(quit, fadefx_is_fading(f))
           o1      == IF accept /\ "IB_DOWN" \in buttons
                      THEN option_down(option, lngcount) ELSE option
           o2      == IF accept /\ "IB_UP" \in buttons
                      THEN option_up(o1, lngcount) ELSE o1
           confirm == accept /\ buttons \cap {"IB_FIRE1", "IB_FIRE3"} # {}
           c       == confirm_language(strings, languages, lngdata[o2 + 1].filepath, prefs)
           back    == accept /\ "IB_FIRE4" \in buttons
           fatal   == confirm /\ c.fatal
           q       == quit \/ confirm \/ back
           pop     == ~fatal /\ q /\ fadefx_is_over(f)
       IN  /\ option' = o2
           /\ strings' = IF confirm THEN c.strings ELSE strings
           /\ lang_defined' = IF confirm
                              THEN lang_defined \cup LoadedKeys(languages, c.loaded)
                              ELSE lang_defined
           /\ prefs' = IF confirm THEN c.prefs ELSE prefs
           /\ quit' = IF fatal THEN quit ELSE q
           /\ lang_state' = IF fatal THEN "fatal" ELSE lang_state
           /\ scene' = IF fatal THEN "fatal"
                       ELSE IF pop THEN "langselect:popped"
                       ELSE "langselect"
           /\ fade' = IF ~fatal /\ q /\ ~pop THEN fadefx_out(f, 1) ELSE f
           /\ lastOp' = [NoOp EXCEPT !.kind = "langselect_update", !.ok = ~fatal,
                                     !.buttons = buttons, !.dt = dt,
                                     !.fading = fadefx_is_fading(f),
                                     !.over = fadefx_is_over(f),
                                     !.popped = pop,
                                     !.current_page = current_page(o2),
                                     !.max_pages = max_pages(lngcount),
                                     !.steps = IF confirm THEN c.steps ELSE <<>>,
                                     !.loaded = IF confirm THEN c.loaded ELSE <<>>,
                                     !.path = IF confirm THEN lngdata[o2 + 1].filepath
                                              ELSE "",
                                     !.table = strings,
                                     !.option_before = option,
                                     !.quit_before = quit,
                                     !.prefs_before = prefs]
    /\ UNCHANGED <<objects, epoch, vm, vm_argc, vm_argv, test_mode, cached_ref, status,
                   pool, launched, init_argv, cached_epoch, required, live_vms, walk,
                   parser, languages, lngcount, lngdata, gameover_timer, ops>>

\* the scene stack releases the scene it popped
langselect_release ==
    /\ scene = "langselect:popped"
    /\ lngcount' = 0
    /\ lngdata' = <<>>
    /\ scene' = "none"
    /\ lastOp' = [NoOp EXCEPT !.kind = "langselect_release"]
    /\ UNCHANGED <<objects, epoch, vm, vm_argc, vm_argv, test_mode, cached_ref, status,
                   pool, launched, init_argv, cached_epoch, required, live_vms, walk,
                   parser, languages, strings, lang_state, quit, option, prefs, fade,
                   gameover_timer, lang_defined, ops>>

InitLangselect == ScriptingDown /\ ScenesIdleWithAssets

NextLangselect ==
    \/ lang_init
    \/ \E filepath \in LangPaths : preload(filepath)
    \/ \E order \in Orders(DOMAIN languages) : langselect_init(order)
    \/ \E buttons \in Pressed, dt \in 1..MaxDt : langselect_update(buttons, dt)
    \/ langselect_release

SpecLangselect == InitLangselect /\ [][NextLangselect]_vars

-----------------------------------------------------------------------------
(* The language selection scene: cursor, quit, confirmation, list *)

\* the update took the buttons: quit was not set and no fade was in progress
InputTaken ==
    /\ lastOp.kind = "langselect_update"
    /\ ~lastOp.quit_before
    /\ ~lastOp.fading

\* C24: while the scene runs there are two languages or more and the option is
\* one of 0 .. lngcount-1; DOWN alone on the last entry gives 0, UP alone on
\* entry 0 gives lngcount-1, and each moves by one entry anywhere else
C24_CursorStaysInRange ==
    /\ scene = "langselect" => lngcount >= 2 /\ option \in 0..(lngcount - 1)
    /\ lastOp.kind = "langselect_update" => option \in 0..(lngcount - 1)
    /\ InputTaken /\ lastOp.buttons \cap {"IB_DOWN", "IB_UP"} = {"IB_DOWN"} =>
           option = IF lastOp.option_before = lngcount - 1 THEN 0
                    ELSE lastOp.option_before + 1
    /\ InputTaken /\ lastOp.buttons \cap {"IB_DOWN", "IB_UP"} = {"IB_UP"} =>
           option = IF lastOp.option_before = 0 THEN lngcount - 1
                    ELSE lastOp.option_before - 1

\* UP was pressed on entry 0 of a list of three languages
C24_Witness ==
    /\ InputTaken
    /\ lastOp.buttons = {"IB_UP"}
    /\ lastOp.option_before = 0
    /\ lngcount = 3
    /\ option = 2

\* C25 as stated: the scene is popped on a later update than the one in which
\* quit became true
C25_PoppedOnLaterUpdate ==
    lastOp.kind = "langselect_update" /\ lastOp.popped => lastOp.quit_before

\* C25: quit, once true, stays true; an update that starts with quit set, or
\* during which a fade is in progress, changes neither the option nor the
\* table nor the preferences; the scene is popped by the first update at which
\* quit is set and the fade is over, the update that set quit included, and
\* until then every update with quit set leaves a fade in progress
C25_QuitLatch ==
    lastOp.kind = "langselect_update" /\ lastOp.ok =>
        /\ lastOp.quit_before => quit
        /\ lastOp.quit_before \/ lastOp.fading =>
               /\ quit = lastOp.quit_before
               /\ option = lastOp.option_before
               /\ strings = lastOp.table
               /\ prefs = lastOp.prefs_before
               /\ lastOp.steps = <<>>
        /\ lastOp.popped <=> (quit /\ lastOp.over)
        /\ lastOp.popped <=> (scene = "langselect:popped")
        /\ quit /\ ~lastOp.over => fadefx_is_fading(fade)

\* the buttons were pressed after quit was set, and nothing moved
C25_Witness ==
    /\ lastOp.kind = "langselect_update"
    /\ lastOp.quit_before
    /\ ~lastOp.fading
    /\ lastOp.buttons = {"IB_UP", "IB_FIRE1"}
    /\ lastOp.popped
    /\ option = lastOp.option_before
    /\ strings = lastOp.table

\* the update confirmed a language
Confirmed == InputTaken /\ lastOp.buttons \cap {"IB_FIRE1", "IB_FIRE3"} # {}

\* C26: a confirmation loads the default file, then the selected file, then
\* saves the selected path; afterwards every key of the selected file has the
\* string of the selected file and every key of the default file alone has the
\* string of the default file
C26_DefaultThenSelected ==
    Confirmed /\ lastOp.ok =>
        LET filepath == lngdata[option + 1].filepath
            selected == languages[filepath].statements
            default  == languages[DEFAULT_LANGUAGE_FILEPATH].statements
        IN  /\ lastOp.steps =
                   << [call |-> "lang_loadfile", path |-> DEFAULT_LANGUAGE_FILEPATH],
                      [call |-> "lang_loadfile", path |-> filepath],
                      [call |-> "save_preferences", path |-> filepath] >>
            /\ prefs[".langpath"] = filepath
            /\ \A k \in StatementKeys(selected) :
                   lang_getstring(strings, k) = LastValue(selected, k)
            /\ \A k \in StatementKeys(default) \ StatementKeys(selected) :
                   lang_getstring(strings, k) = LastValue(default, k)
            /\ quit

\* Deutsch was confirmed while Latina was loaded
C26_Witness ==
    /\ Confirmed
    /\ lastOp.path = "languages/deutsch.lng"
    /\ lastOp.table["YES"] = "ita"
    /\ strings["YES"] = "ja"
    /\ strings["NO"] = "no"
    /\ prefs[".langpath"] = "languages/deutsch.lng"

\* C29: dirfill writes as many entries as dircount counted, every slot of
\* lngdata is written, no write goes past the array, and every listed file is
\* one lang_loadfile loads
C29_ListIsFilled ==
    lastOp.kind = "langselect_init" /\ lastOp.ok =>
        /\ lastOp.written = lastOp.count
        /\ lngcount = lastOp.count
        /\ Len(lngdata) = lngcount
        /\ ~lastOp.overflow
        /\ \A i \in 1..lngcount :
               /\ lngdata[i] # Unwritten
               /\ lngdata[i].filepath \in DOMAIN languages
               /\ LET r == lang_loadfile(EmptyTable, languages, lngdata[i].filepath, 0)
                  IN  ~r.fatal /\ r.loaded = <<lngdata[i].filepath>>
        /\ \A i, j \in 1..lngcount : lngdata[i].filepath = lngdata[j].filepath => i = j

\* the folder has two languages and a file of a later version: the list has
\* the two languages, English first
C29_Witness ==
    /\ lastOp.kind = "langselect_init"
    /\ "languages/future.lng" \in DOMAIN languages
    /\ lngcount = 2
    /\ lngdata[1].title = "English"
    /\ lngdata[2].title = "Deutsch"

-----------------------------------------------------------------------------
(* The game over scene (src/src/scenes/gameover.c) *)

\* seconds
GAMEOVER_TIMEOUT == 7

\* a scene that does not wait
timed_out_at_once(timer) == timer >= 0

\* if(gameover_timer >= GAMEOVER_TIMEOUT), the timer counted in ticks
timed_out(timer) == timer >= GAMEOVER_TIMEOUT * TicksPerSecond

gameover_init ==
    /\ scene = "none"
    /\ gameover_timer' = 0
    /\ scene' = "gameover"
    /\ lastOp' = [NoOp EXCEPT !.kind = "gameover_init", !.fade_before = fade]
    /\ UNCHANGED <<objects, epoch, vm, vm_argc, vm_argv, test_mode, cached_ref, status,
                   pool, launched, init_argv, cached_epoch, required, live_vms, walk,
                   parser, strings, lang_state, languages, quit, lngcount, lngdata,
                   option, prefs, lang_defined, ops, fade>>

gameover_update(dt) ==
    /\ scene = "gameover"
    /\ LET f   == FadeFrame(fade, dt)
           t   == gameover_timer + dt
           pop == timed_out(t) /\ fadefx_is_over(f)
       IN  /\ gameover_timer' = t
           /\ scene' = IF pop THEN "gameover:popped" ELSE "gameover"
           /\ fade' = IF timed_out(t) /\ ~pop THEN fadefx_out(f, 2) ELSE f
           /\ lastOp' = [NoOp EXCEPT !.kind = "gameover_update", !.dt = dt,
                                     !.fading = fadefx_is_fading(f),
                                     !.over = fadefx_is_over(f),
                                     !.popped = pop,
                                     !.steps = IF pop
                                               THEN <<"quest_abort", "scenestack_pop">>
                                               ELSE IF timed_out(t)
                                               THEN <<"fadefx_out">>
                                               ELSE <<>>,
                                     !.timer_before = gameover_timer,
                                     !.fade_before = fade]
    /\ UNCHANGED <<objects, epoch, vm, vm_argc, vm_argv, test_mode, cached_ref, status,
                   pool, launched, init_argv, cached_epoch, required, live_vms, walk,
                   parser, strings, lang_state, languages, quit, lngcount, lngdata,
                   option, prefs, lang_defined, ops>>

\* the scene stack releases the scene it popped
gameover_release ==
    /\ scene = "gameover:popped"
    /\ scene' = "none"
    /\ lastOp' = [NoOp EXCEPT !.kind = "gameover_release", !.steps = <<"quest_abort">>]
    /\ UNCHANGED <<objects, epoch, vm, vm_argc, vm_argv, test_mode, cached_ref, status,
                   pool, launched, init_argv, cached_epoch, required, live_vms, walk,
                   parser, strings, lang_state, languages, quit, lngcount, lngdata,
                   option, prefs, lang_defined, ops, fade, gameover_timer>>

\* the scene starts with no fade, or with a fade of another scene in progress
InitGameover ==
    /\ ScriptingDown
    /\ parser = [pool |-> {}, flags |-> "defaults", success |-> TRUE, stop |-> FALSE,
                 fatal |-> FALSE, compiled |-> <<>>, used |-> <<>>]
    /\ strings = EmptyTable
    /\ lang_state = "down"
    /\ languages = EmptyTable
    /\ quit = FALSE
    /\ lngcount = 0
    /\ lngdata = <<>>
    /\ option = 0
    /\ prefs = EmptyTable
    /\ scene = "none"
    /\ fade \in {NoFade}
                \cup { [type |-> "in", left |-> left, over |-> FALSE] :
                           left \in 1..(GAMEOVER_TIMEOUT * TicksPerSecond + 1) }
    /\ gameover_timer = 0
    /\ lang_defined = {}

\* one frame of the main loop
gameover_frame == \E dt \in 1..MaxDt : gameover_update(dt)

NextGameover ==
    \/ gameover_init
    \/ gameover_frame
    \/ gameover_release

\* the main loop calls the update of the scene on top, frame after frame
SpecGameover == InitGameover /\ [][NextGameover]_vars /\ WF_vars(gameover_frame)

\* what an update of the game over scene does
GameoverFrameRule ==
    lastOp.kind = "gameover_update" =>
        /\ gameover_timer = lastOp.timer_before + lastOp.dt
        /\ lastOp.dt > 0
        /\ gameover_timer < GAMEOVER_TIMEOUT * TicksPerSecond =>
               /\ ~lastOp.popped
               /\ scene = "gameover"
               /\ lastOp.steps = <<>>
               /\ fade = FadeFrame(lastOp.fade_before, lastOp.dt)
        /\ gameover_timer >= GAMEOVER_TIMEOUT * TicksPerSecond =>
               IF lastOp.over
               THEN /\ lastOp.popped
                    /\ scene = "gameover:popped"
                    /\ lastOp.steps = <<"quest_abort", "scenestack_pop">>
               ELSE /\ ~lastOp.popped
                    /\ scene = "gameover"
                    /\ lastOp.steps = <<"fadefx_out">>
                    /\ fadefx_is_fading(fade)

\* C30: below the timeout an update neither starts the fade-out nor pops the
\* scene; from the timeout on an update calls fadefx_out and leaves a fade in
\* progress, or, in the frame the fade is over, calls quest_abort and pops the
\* scene; with frames of positive length the scene is popped in the end
C30_GameoverTiming ==
    /\ []GameoverFrameRule
    /\ (scene = "gameover") ~> (scene = "gameover:popped")

\* the scene waited for the timeout, faded out and was popped
C30_Witness ==
    /\ lastOp.kind = "gameover_update"
    /\ lastOp.popped
    /\ lastOp.fade_before.type = "out"
    /\ gameover_timer >= (GAMEOVER_TIMEOUT + 2) * TicksPerSecond

-----------------------------------------------------------------------------
(* The pages of the language list (langselect.c, the page label and the
   rendering) *)

\* the longest list of languages
MaxLanguages == 15

\* langselect_render: the entries whose font is rendered
langselect_render ==
    /\ scene = "langselect"
    /\ lastOp' = [NoOp EXCEPT !.kind = "langselect_render",
                              !.rendered =
                                  { i \in 0..(lngcount - 1) :
                                        CQuotient(i, LANG_MAXPERPAGE)
                                            = CQuotient(option, LANG_MAXPERPAGE) }]
    /\ UNCHANGED <<objects, epoch, vm, vm_argc, vm_argv, test_mode, cached_ref, status,
                   pool, launched, init_argv, cached_epoch, required, live_vms, walk,
                   parser, sceneVars, ops>>

\* the scene is running on a folder of compatible languages, named here by
\* their place in the sorted list, the default language loaded, the fade-in
\* over, the cursor anywhere
InitPage ==
    /\ ScriptingDown
    /\ parser = [pool |-> {}, flags |-> "defaults", success |-> TRUE, stop |-> FALSE,
                 fatal |-> FALSE, compiled |-> <<>>, used |-> <<>>]
    /\ lngcount \in 2..MaxLanguages
    /\ option \in 0..(lngcount - 1)
    /\ lngdata = [i \in 1..lngcount |-> [filepath |-> i, title |-> i, author |-> i]]
    /\ languages = [i \in 1..lngcount |-> english]
    /\ strings = traverse(EmptyTable, english.statements)
    /\ lang_defined = StatementKeys(english.statements)
    /\ lang_state = "up"
    /\ quit = FALSE
    /\ prefs = EmptyTable
    /\ scene = "langselect"
    /\ fade = NoFade
    /\ gameover_timer = 0

NextPage ==
    \/ \E buttons \in SUBSET {"IB_DOWN", "IB_UP"}, dt \in 1..MaxDt :
           langselect_update(buttons, dt)
    \/ langselect_render

SpecPage == InitPage /\ [][NextPage]_vars

\* the entries of page p of a list of count entries, LANG_MAXPERPAGE to a page
PageEntries(p, count) ==
    { i \in 0..(count - 1) : LANG_MAXPERPAGE * (p - 1) <= i /\ i < LANG_MAXPERPAGE * p }

\* C31: with the option among the entries of the list, the page of the label
\* is at least 1 and at most the number of pages, the number of pages is the
\* least that holds the list, and the rendering shows the entries of the page
\* of the option and no other
C31_PageLabel ==
    /\ scene = "langselect" => lngcount >= 1 /\ option \in 0..(lngcount - 1)
    /\ lastOp.kind = "langselect_update" =>
           /\ 1 <= lastOp.current_page
           /\ lastOp.current_page <= lastOp.max_pages
           /\ option \in PageEntries(lastOp.current_page, lngcount)
           /\ LANG_MAXPERPAGE * lastOp.max_pages >= lngcount
           /\ LANG_MAXPERPAGE * (lastOp.max_pages - 1) < lngcount
    /\ lastOp.kind = "langselect_render" =>
           /\ option \in lastOp.rendered
           /\ \E p \in 1..lngcount : lastOp.rendered = PageEntries(p, lngcount)

\* the label of the last page of a list of three pages, the last page not full
C31_Witness ==
    /\ lastOp.kind = "langselect_update"
    /\ lngcount = MaxLanguages
    /\ lastOp.current_page = lastOp.max_pages
    /\ lastOp.current_page > 2
    /\ option = lngcount - 1

====
